---- MODULE Spec2Model ----
(***************************************************************************)
(* Timeline compositing and export engine of the video editor.             *)
(*                                                                         *)
(* Time is counted in ticks of 1/600 s, so that one export frame           *)
(* (1/30 s) times every playback speed the speed selector offers is a      *)
(* whole number of ticks.  Fractions (transition progress, opacities) are  *)
(* pairs <<numerator, denominator>>.  The <video> elements behind          *)
(* videoRefA / videoRefB are taken to be mounted with their metadata       *)
(* loaded.                                                                 *)
(***************************************************************************)
EXTENDS Integers, Sequences, FiniteSets, TLC

VARIABLES
    clips,              \* EditorState.clips: array of clips, may hold a hole
    transition,         \* EditorState.transition
    textOverlays,       \* EditorState.textOverlays
    imageOverlays,      \* EditorState.imageOverlays
    playbackSpeed,      \* EditorState.playbackSpeed, in percent
    currentTime,        \* App currentTime (the playhead), in ticks
    clock,              \* Date.now(), advanced by every creation
    previewSeeks,       \* seek targets of the last updateVideoTimes
    canvas,             \* what the last preview drawFrame drew
    isExporting,        \* App isExporting
    exportPc,           \* position of the export run
    snapshot,           \* values closed over by handleExport
    currentExportTime,  \* handleExport.currentExportTime
    pending,            \* video draws of the current export frame not yet drawn
    drawn,              \* video draws of the current export frame already drawn
    exportSeeks,        \* seeks issued for the current export frame
    frames,             \* frames composited by the running export, in order
    imageData,          \* pixels handed to applyChromaKey
    chromaKey,          \* ChromaKeySettings handed to applyChromaKey
    keyedData,          \* pixels after applyChromaKey
    cancelRequested,    \* a stop signal was given to the running export
    sourceFault,        \* a <video> element has failed: it fires no more 'seeked'
    selectedFilter,     \* EditorState.selectedFilter, by name
    selectedEffect,     \* EditorState.selectedEffect, by name
    layer,              \* what drawVideo / drawVideoToCanvas last painted
    crop,               \* EditorState.crop, in percent of the frame
    localCrop,          \* CropTool localCrop
    activeHandle,       \* CropTool activeHandle
    startCrop,          \* CropTool startCropRef.current
    history,            \* useHistory history: the editor states recorded
    currentIndex,       \* useHistory currentIndex, from 0
    loading,            \* handleAddClip calls whose video has not fired onseeked
    revoked             \* object URLs given to URL.revokeObjectURL

vars == <<clips, transition, textOverlays, imageOverlays, playbackSpeed,
          currentTime, clock, previewSeeks, canvas, isExporting,
          exportPc, snapshot, currentExportTime, pending, drawn, exportSeeks,
          frames, imageData, chromaKey, keyedData, cancelRequested, sourceFault,
          selectedFilter, selectedEffect, layer, crop, localCrop, activeHandle,
          startCrop, history, currentIndex, loading, revoked>>

editorVars == <<clips, transition, textOverlays, imageOverlays, playbackSpeed>>
exportVars == <<isExporting, exportPc, snapshot, currentExportTime, pending,
                drawn, exportSeeks, frames>>
chromaVars == <<imageData, chromaKey, keyedData>>
driverVars == <<cancelRequested, sourceFault>>
gradeVars == <<selectedFilter, selectedEffect, layer>>
cropVars == <<crop, localCrop, activeHandle, startCrop>>
historyVars == <<history, currentIndex, loading, revoked>>

----------------------------------------------------------------------------
(* Units and program constants *)

FrameRate == 30
TicksPerSecond == 20 * FrameRate
frameDuration == TicksPerSecond \div FrameRate
animationDuration == TicksPerSecond \div 2

(* A CSS filter function; arg is in tenths of the number written *)
Fn(fn, arg, unit) == [fn |-> fn, arg |-> arg, unit |-> unit]
none == <<Fn("none", 0, "")>>

(* FILTERS and EFFECTS: name -> value, a list of filter functions *)
FILTERS ==
    [name \in {"None", "Grayscale", "Sepia", "Invert", "Contrast", "Saturate"} |->
        CASE name = "None"      -> none
          [] name = "Grayscale" -> <<Fn("grayscale", 1000, "%")>>
          [] name = "Sepia"     -> <<Fn("sepia", 1000, "%")>>
          [] name = "Invert"    -> <<Fn("invert", 1000, "%")>>
          [] name = "Contrast"  -> <<Fn("contrast", 2000, "%")>>
          [] name = "Saturate"  -> <<Fn("saturate", 80, "")>>]

EFFECTS ==
    [name \in {"None", "Vintage", "Dreamy", "Noir", "Vivid", "Lomo"} |->
        CASE name = "None"    -> none
          [] name = "Vintage" -> <<Fn("sepia", 600, "%"), Fn("contrast", 1100, "%"),
                                   Fn("brightness", 900, "%")>>
          [] name = "Dreamy"  -> <<Fn("blur", 5, "px"), Fn("saturate", 1500, "%"),
                                   Fn("contrast", 1100, "%")>>
          [] name = "Noir"    -> <<Fn("grayscale", 1000, "%"), Fn("contrast", 1500, "%")>>
          [] name = "Vivid"   -> <<Fn("saturate", 1750, "%"), Fn("contrast", 1250, "%")>>
          [] name = "Lomo"    -> <<Fn("saturate", 1500, "%"), Fn("contrast", 1500, "%")>>]

AnimationInType == {"none", "fade-in", "slide-in-left", "slide-in-right",
                    "slide-in-top", "slide-in-bottom", "slide-in-center"}
AnimationOutType == {"none", "fade-out", "slide-out-left", "slide-out-right",
                     "slide-out-top", "slide-out-bottom", "slide-out-center"}

(* An optional value is a sequence: <<>> is JavaScript's undefined (or null), *)
(* <<v>> is the value v.                                                     *)
undefined == <<>>
Some(v) == <<v>>
Val(opt) == opt[1]

PlaybackSpeeds == {50, 75, 100, 120, 150, 200}
TransitionTypes == {"none", "crossfade", "wipe-left", "wipe-right", "wipe-up", "wipe-down"}

(* Bounds of the model *)
MaxOverlays == 2
ClipDurations == {40, 80}
SliderDurations == {60}
SpeedChoices == {100, 200}
TimeGrid == {0, 40, 160}
OverlayClipDurations == {40}
OverlayTimeGrid == {0, 20, 80}
ImageWindows == {undefined, Some(<<20, 40>>)}
LongDurations == {15 * TicksPerSecond}
RandomSamples == {<<0, 2>>, <<1, 2>>}
AutoFilterSamples == {"Sepia"}
Look(clip, reversed, from, to, keyed, grading, blur) ==
    [clip EXCEPT !.isReversed = reversed, !.startTransform = from, !.endTransform = to,
                 !.chromaKey.enabled = keyed, !.colorGrading = grading, !.blur = blur]
Plain(d) ==
    [duration |-> d, trimStart |-> 0, trimEnd |-> d, isReversed |-> FALSE,
     startTransform |-> [scale |-> 100, x |-> 0, y |-> 0],
     endTransform |-> [scale |-> 100, x |-> 0, y |-> 0],
     chromaKey |-> [enabled |-> FALSE, color |-> <<16, 0, 0, 15, 15, 0, 0>>,
                    similarity |-> 15],
     colorGrading |-> [brightness |-> 100, saturation |-> 100, hue |-> 0],
     blur |-> 0]
GradeClipsA ==
    {Plain(80),
     Look(Plain(80), TRUE, [scale |-> 100, x |-> -2, y |-> -2],
          [scale |-> 115, x |-> 2, y |-> 2], TRUE,
          [brightness |-> 120, saturation |-> 100, hue |-> 30], 5)}
GradeClipsB ==
    {Plain(80),
     Look([Plain(80) EXCEPT !.trimStart = 20, !.trimEnd = 60], TRUE,
          [scale |-> 200, x |-> 10, y |-> 0], [scale |-> 100, x |-> 0, y |-> 0], TRUE,
          [brightness |-> 100, saturation |-> 50, hue |-> 0], 3),
     Look(Plain(80), FALSE, [scale |-> 100, x |-> 0, y |-> 0],
          [scale |-> 150, x |-> 0, y |-> 5], FALSE,
          [brightness |-> 90, saturation |-> 100, hue |-> 0], 0)}
GradeTransitionTypes == {"none", "crossfade", "wipe-left"}
GradeSliderDurations == {40}
GradeTimeGrid == {0, 20, 60, 100}
GradeFilters == {"None", "Sepia"}
GradeEffects == {"None", "Dreamy"}
AnimatorClipDurations == {400}
CropClipDurations == {40}
Displacements == {-60, 0, 60}
AnimatorEndTimes == {40, 400}
AnimatorTimeGrid == {0, 20, 40, 200, 380, 400}
AutoEffectSamples == {"Vintage"}
AutoTimeGrid == {0, 2250, 4500}
MaxPixels == 2
DriverClipDurations == {160}
DriverTransitionTypes == {"crossfade"}
DriverSliderDurations == {20}
AssetClipDurations == {40}
AssetMasks == {[shape |-> "none", customSvg |-> <<>>],
               [shape |-> "custom-svg", customSvg |-> <<"shape">>],
               [shape |-> "custom-svg", customSvg |-> <<"corrupt">>]}
ImageSources == {"picture", "corrupt"}
Pixel(r, g, b, a) == [r |-> r, g |-> g, b |-> b, a |-> a]
PixelSamples == {Pixel(0, 255, 0, 255), Pixel(0, 255, 0, 0), Pixel(10, 250, 10, 255),
                 Pixel(51, 51, 51, 255), Pixel(0, 0, 0, 128), Pixel(255, 255, 255, 255)}
KeyColors == {<<16, 0, 0, 15, 15, 0, 0>>, <<16, 0, 0, 0, 0, 0, 0>>}
Similarities == {0, 1, 15, 20, 21, 100}
ChannelSamples == {0, 90, 255}

Max(a, b) == IF a >= b THEN a ELSE b
Min(a, b) == IF a <= b THEN a ELSE b
Abs(a) == IF a >= 0 THEN a ELSE -a

----------------------------------------------------------------------------
(* Time mapping: App.tsx and VideoPlayer.tsx *)

clipA(cs) == IF Len(cs) >= 1 THEN cs[1] ELSE undefined
clipB(cs) == IF Len(cs) >= 2 THEN cs[2] ELSE undefined

getClipTrimmedDuration(clip) ==
    IF clip = undefined THEN 0 ELSE Val(clip).trimEnd - Val(clip).trimStart

durationA(cs) == getClipTrimmedDuration(clipA(cs))
durationB(cs) == getClipTrimmedDuration(clipB(cs))

transitionDurationWithoutClipB(cs, tr) ==
    IF tr.type # "none" /\ clipA(cs) # undefined THEN tr.duration ELSE 0

transitionDuration(cs, tr) ==
    IF tr.type # "none" /\ clipA(cs) # undefined /\ clipB(cs) # undefined
    THEN tr.duration ELSE 0

totalDuration(cs, tr) ==
    Max(0, durationA(cs) + durationB(cs) - transitionDuration(cs, tr))

hasVideo(cs) == Len(cs) > 0

playerDurationA(cA) == getClipTrimmedDuration(cA)

playerTransitionDuration(cA, cB, tr) ==
    IF tr.type # "none" /\ cA # undefined /\ cB # undefined
    THEN tr.duration ELSE 0

playerTransitionStartTime(cA, cB, tr) ==
    playerDurationA(cA) - playerTransitionDuration(cA, cB, tr)

timelineDurationA(cs) ==
    IF clipA(cs) # undefined
    THEN Val(clipA(cs)).trimEnd - Val(clipA(cs)).trimStart ELSE 0

timelineTransitionDuration(cs, tr) ==
    IF tr.type # "none" /\ clipA(cs) # undefined /\ clipB(cs) # undefined
    THEN tr.duration ELSE 0

----------------------------------------------------------------------------
(* Video layer of one frame: the drawVideo / drawVideoToCanvas calls in    *)
(* call order.  A draw is the clip drawn, its local time, the globalAlpha  *)
(* and the clip region, the latter two as fractions.                       *)

One == <<1, 1>>
FullFrame == [x |-> <<0, 1>>, y |-> <<0, 1>>, w |-> One, h |-> One]

Draw(c, t, op, rg) == [clip |-> c, time |-> t, opacity |-> op, region |-> rg]

(* ctx.rect(...) of the four wipes, in fractions of the canvas *)
wipeRegion(type, num, den) ==
    CASE type = "wipe-left"  -> [x |-> <<0, den>>, y |-> <<0, den>>,
                                 w |-> <<num, den>>, h |-> <<den, den>>]
      [] type = "wipe-right" -> [x |-> <<den - num, den>>, y |-> <<0, den>>,
                                 w |-> <<num, den>>, h |-> <<den, den>>]
      [] type = "wipe-down"  -> [x |-> <<0, den>>, y |-> <<0, den>>,
                                 w |-> <<den, den>>, h |-> <<num, den>>]
      [] type = "wipe-up"    -> [x |-> <<0, den>>, y |-> <<den - num, den>>,
                                 w |-> <<den, den>>, h |-> <<num, den>>]

Wipes == {"wipe-left", "wipe-right", "wipe-up", "wipe-down"}

previewVideoDrawsLateB(cA, cB, tr, t) ==
    LET dA == playerDurationA(cA)
        start == playerTransitionStartTime(cA, cB, tr)
        isInTransition == t >= start /\ t < dA /\ cB # undefined
        timeInB == t - start
        num == t - start
        den == tr.duration
    IN  IF ~isInTransition
        THEN IF t < dA /\ cA # undefined
             THEN <<Draw("A", t, One, FullFrame)>>
             ELSE IF t > dA /\ cB # undefined
                  THEN <<Draw("B", t - start, One, FullFrame)>>
                  ELSE <<>>
        ELSE IF cA # undefined /\ cB # undefined
             THEN CASE tr.type = "crossfade" ->
                         <<Draw("A", t, <<den - num, den>>, FullFrame),
                           Draw("B", timeInB, <<num, den>>, FullFrame)>>
                    [] tr.type \in Wipes ->
                         <<Draw("A", t, One, FullFrame),
                           Draw("B", timeInB, One, wipeRegion(tr.type, num, den))>>
                    [] OTHER -> <<Draw("A", t, One, FullFrame)>>
             ELSE <<>>

(* VideoPlayer.drawFrame, "Transition Logic" *)
previewVideoDraws(cA, cB, tr, t) ==
    LET dA == playerDurationA(cA)
        start == playerTransitionStartTime(cA, cB, tr)
        isInTransition == t >= start /\ t < dA /\ cB # undefined
        timeInB == t - start
        num == t - start
        den == tr.duration
    IN  IF ~isInTransition
        THEN IF t < dA /\ cA # undefined
             THEN <<Draw("A", t, One, FullFrame)>>
             ELSE IF t >= dA /\ cB # undefined
                  THEN <<Draw("B", t - start, One, FullFrame)>>
                  ELSE <<>>
        ELSE IF cA # undefined /\ cB # undefined
             THEN CASE tr.type = "crossfade" ->
                         <<Draw("A", t, <<den - num, den>>, FullFrame),
                           Draw("B", timeInB, <<num, den>>, FullFrame)>>
                    [] tr.type \in Wipes ->
                         <<Draw("A", t, One, FullFrame),
                           Draw("B", timeInB, One, wipeRegion(tr.type, num, den))>>
                    [] OTHER -> <<Draw("A", t, One, FullFrame)>>
             ELSE <<>>

exportVideoDrawsProgressFromZero(s, t) ==
    LET transitionStartTime == s.durationA - s.transitionDuration
        cA == clipA(s.clips)
        cB == clipB(s.clips)
        timeInB == t - transitionStartTime
        num == t
        den == s.transition.duration
    IN  IF t < transitionStartTime
        THEN <<Draw("A", t, One, FullFrame)>>
        ELSE IF t >= transitionStartTime /\ t < s.durationA /\ cB # undefined
        THEN CASE s.transition.type = "crossfade" ->
                    <<Draw("B", timeInB, One, FullFrame),
                      Draw("A", t, <<den - num, den>>, FullFrame)>>
               [] s.transition.type \in Wipes ->
                    <<Draw("A", t, One, FullFrame),
                      Draw("B", timeInB, One, wipeRegion(s.transition.type, num, den))>>
               [] OTHER -> <<Draw("A", t, One, FullFrame)>>
        ELSE IF cB # undefined /\ t >= s.durationA
        THEN <<Draw("B", timeInB, One, FullFrame)>>
        ELSE IF cA # undefined
        THEN <<Draw("A", t, One, FullFrame)>>
        ELSE <<>>

(* handleExport.drawFrame, the clip branches; s is the closure of handleExport *)
exportVideoDraws(s, t) ==
    LET transitionStartTime == s.durationA - s.transitionDuration
        cA == clipA(s.clips)
        cB == clipB(s.clips)
        timeInB == t - transitionStartTime
        num == t - transitionStartTime
        den == s.transition.duration
    IN  IF t < transitionStartTime
        THEN <<Draw("A", t, One, FullFrame)>>
        ELSE IF t >= transitionStartTime /\ t < s.durationA /\ cB # undefined
        THEN CASE s.transition.type = "crossfade" ->
                    <<Draw("B", timeInB, One, FullFrame),
                      Draw("A", t, <<den - num, den>>, FullFrame)>>
               [] s.transition.type \in Wipes ->
                    <<Draw("A", t, One, FullFrame),
                      Draw("B", timeInB, One, wipeRegion(s.transition.type, num, den))>>
               [] OTHER -> <<Draw("A", t, One, FullFrame)>>
        ELSE IF cB # undefined /\ t >= s.durationA
        THEN <<Draw("B", timeInB, One, FullFrame)>>
        ELSE IF cA # undefined
        THEN <<Draw("A", t, One, FullFrame)>>
        ELSE <<>>

(* Local time to source time *)
timeToSeekFromDuration(clip, time) ==
    IF clip.isReversed THEN clip.duration - time ELSE clip.trimStart + time

timeToSeek(clip, time) ==
    IF clip.isReversed THEN clip.trimEnd - time ELSE clip.trimStart + time

seekTimeA(cA, t) ==
    IF Val(cA).isReversed THEN Val(cA).trimEnd - t ELSE Val(cA).trimStart + t

seekTimeB(cA, cB, tr, t) ==
    LET timeWithinClipB == t - playerTransitionStartTime(cA, cB, tr)
    IN  IF Val(cB).isReversed THEN Val(cB).trimEnd - timeWithinClipB
        ELSE Val(cB).trimStart + timeWithinClipB

(* updateVideoTimes assigns an element's currentTime only when it is more  *)
(* than 0.2 s away from the seek time                                      *)
seekTolerance == TicksPerSecond \div 5
drifted(elementTime, seekTime) == Abs(elementTime - seekTime) > seekTolerance

(* VideoPlayer effect, updateVideoTimes: the time each element is sought  *)
(* to when it has drifted from it by more than 0.2 s                       *)
updateVideoTimes(cA, cB, tr, t) ==
    IF cA = undefined THEN [A |-> undefined, B |-> undefined]
    ELSE [A |-> Some(seekTimeA(cA, t)),
          B |-> IF cB # undefined THEN Some(seekTimeB(cA, cB, tr, t)) ELSE undefined]

----------------------------------------------------------------------------
(* Overlays.  Opacity, translate and scale of getOverlayRenderState are    *)
(* kept multiplied by animationDuration, so they stay whole numbers.       *)

lerp(a, b, num, den) == a * den + (b - a) * num

getOverlayRenderState(overlay, t) ==
    LET AD == animationDuration
        isVisible == t >= overlay.startTime /\ t <= overlay.endTime
        timeIn == t - overlay.startTime
        in == IF overlay.animationIn # "none" /\ timeIn < AD
              THEN overlay.animationIn ELSE "none"
        opacity1 == IF in \in {"fade-in", "slide-in-center"} THEN timeIn ELSE AD
        x1 == CASE in = "slide-in-left"  -> lerp(-100, 0, timeIn, AD)
                [] in = "slide-in-right" -> lerp(100, 0, timeIn, AD)
                [] OTHER -> 0
        y1 == CASE in = "slide-in-top"    -> lerp(-100, 0, timeIn, AD)
                [] in = "slide-in-bottom" -> lerp(100, 0, timeIn, AD)
                [] OTHER -> 0
        scale1 == IF in = "slide-in-center" THEN lerp(0, 1, timeIn, AD) ELSE AD
        timeUntilEnd == overlay.endTime - t
        out == IF overlay.animationOut # "none" /\ timeUntilEnd < AD
               THEN overlay.animationOut ELSE "none"
        progress == AD - timeUntilEnd
        opacity2 == IF out \in {"fade-out", "slide-out-center"}
                    THEN AD - progress ELSE opacity1
        x2 == CASE out = "slide-out-left"  -> lerp(0, -100, progress, AD)
                [] out = "slide-out-right" -> lerp(0, 100, progress, AD)
                [] OTHER -> x1
        y2 == CASE out = "slide-out-top"    -> lerp(0, -100, progress, AD)
                [] out = "slide-out-bottom" -> lerp(0, 100, progress, AD)
                [] OTHER -> y1
        scale2 == IF out = "slide-out-center" THEN lerp(1, 0, progress, AD) ELSE scale1
    IN  IF ~isVisible
        THEN [isVisible |-> FALSE, opacity |-> 0,
              transform |-> [x |-> 0, y |-> 0, scale |-> AD]]
        ELSE [isVisible |-> TRUE, opacity |-> opacity2,
              transform |-> [x |-> x2, y |-> y2, scale |-> scale2]]

(* (a, b) => a.zIndex - b.zIndex; a NaN result counts as 0 in Array.sort *)
zIndexCompare(a, b) ==
    IF a.zIndex = undefined \/ b.zIndex = undefined THEN 0
    ELSE Val(a.zIndex) - Val(b.zIndex)

RECURSIVE insertByZIndex(_, _)
insertByZIndex(sorted, o) ==
    IF sorted = <<>> THEN <<o>>
    ELSE IF zIndexCompare(o, Head(sorted)) < 0 THEN <<o>> \o sorted
    ELSE <<Head(sorted)>> \o insertByZIndex(Tail(sorted), o)

(* Array.prototype.sort with that comparator: a stable sort *)
RECURSIVE sortByZIndex(_)
sortByZIndex(os) ==
    IF os = <<>> THEN <<>>
    ELSE insertByZIndex(sortByZIndex(SubSeq(os, 1, Len(os) - 1)), os[Len(os)])

OverlayDraw(o, op, tf) == [id |-> o.id, opacity |-> op, transform |-> tf]

(* An image overlay whose file does not decode: img.width stays 0 in the    *)
(* preview, img.onerror fires in the export                                 *)
failsToDecode(o) == o.src = Some("corrupt")

RECURSIVE previewDrawEach(_, _)
previewDrawEach(os, t) ==
    IF os = <<>> THEN <<>>
    ELSE LET st == getOverlayRenderState(Head(os), t)
         IN  (IF st.isVisible /\ ~failsToDecode(Head(os))
              THEN <<OverlayDraw(Head(os), st.opacity, st.transform)>>
              ELSE <<>>) \o previewDrawEach(Tail(os), t)

(* VideoPlayer.drawFrame, "Overlay Drawing Logic" *)
previewOverlayDraws(tos, ios, t) == previewDrawEach(sortByZIndex(ios \o tos), t)

RECURSIVE exportDrawEachBeforeEnd(_, _)
exportDrawEachBeforeEnd(os, t) ==
    IF os = <<>> THEN <<>>
    ELSE (IF t >= Head(os).startTime /\ t < Head(os).endTime /\ ~failsToDecode(Head(os))
          THEN <<OverlayDraw(Head(os), animationDuration,
                             [x |-> 0, y |-> 0, scale |-> animationDuration])>>
          ELSE <<>>) \o exportDrawEachBeforeEnd(Tail(os), t)

RECURSIVE exportDrawEach(_, _)
exportDrawEach(os, t) ==
    IF os = <<>> THEN <<>>
    ELSE (IF t >= Head(os).startTime /\ t <= Head(os).endTime /\ ~failsToDecode(Head(os))
          THEN <<OverlayDraw(Head(os), animationDuration,
                             [x |-> 0, y |-> 0, scale |-> animationDuration])>>
          ELSE <<>>) \o exportDrawEach(Tail(os), t)

(* handleExport.drawFrame: image overlays, then text overlays *)
exportOverlayDraws(s, t) ==
    exportDrawEach(s.imageOverlays, t) \o exportDrawEach(s.textOverlays, t)

(* VideoPlayer.drawFrame *)
drawFrame(cs, tr, tos, ios, t) ==
    [video |-> previewVideoDraws(clipA(cs), clipB(cs), tr, t),
     overlays |-> previewOverlayDraws(tos, ios, t)]

(* App: globalFilter, the values of the selected filter and effect that    *)
(* are not 'none', joined                                                  *)
globalFilter(filterName, effectName) ==
    (IF FILTERS[filterName] # none THEN FILTERS[filterName] ELSE <<>>)
        \o (IF EFFECTS[effectName] # none THEN EFFECTS[effectName] ELSE <<>>)

(* drawVideo / drawVideoToCanvas: clipAdjustments *)
clipAdjustments(clip) ==
    (IF clip.blur > 0 THEN <<Fn("blur", 10 * clip.blur, "px")>> ELSE <<>>)
    \o (IF clip.colorGrading.brightness # 100
        THEN <<Fn("brightness", 10 * clip.colorGrading.brightness, "%")>> ELSE <<>>)
    \o (IF clip.colorGrading.saturation # 100
        THEN <<Fn("saturate", 10 * clip.colorGrading.saturation, "%")>> ELSE <<>>)
    \o (IF clip.colorGrading.hue # 0
        THEN <<Fn("hue-rotate", 10 * clip.colorGrading.hue, "deg")>> ELSE <<>>)

(* ctx.filter of a clip's draw: the filter functions in the order the       *)
(* canvas applies them                                                      *)
finalFilter(filter, clip) == filter \o clipAdjustments(clip)

(* the source rectangle of a clip's draw at its local time, in fractions of *)
(* the video's width and height: the view of the transform interpolated     *)
(* between startTransform and endTransform                                  *)
sourceRect(clip, time) ==
    LET trimmedDuration == clip.trimEnd - clip.trimStart
        den == IF trimmedDuration > 0 THEN trimmedDuration ELSE 1
        progress == IF trimmedDuration > 0 THEN time ELSE 0
        num == IF clip.isReversed THEN den - progress ELSE progress
        scale == lerp(clip.startTransform.scale, clip.endTransform.scale, num, den)
        panX == lerp(clip.startTransform.x, clip.endTransform.x, num, den)
        panY == lerp(clip.startTransform.y, clip.endTransform.y, num, den)
    IN  [w |-> <<100 * den, scale>>,
         h |-> <<100 * den, scale>>,
         x |-> <<(50 * den + panX) * scale - 50 * den * 100 * den, 100 * den * scale>>,
         y |-> <<(50 * den + panY) * scale - 50 * den * 100 * den, 100 * den * scale>>]

(* what one call of drawVideo (preview) or drawVideoToCanvas (export) puts  *)
(* on the canvas: the draw d of clip, its source rectangle, whether the     *)
(* source went through applyChromaKey first, and the canvas filter          *)
paint(d, clip, filter) ==
    [clip |-> d.clip, time |-> d.time, opacity |-> d.opacity, region |-> d.region,
     source |-> sourceRect(clip, d.time),
     keyed |-> clip.chromaKey.enabled,
     filter |-> finalFilter(filter, clip)]

previewVideoLayerGradedAsB(cA, cB, tr, t, filter) ==
    LET ds == previewVideoDraws(cA, cB, tr, t)
    IN  [i \in DOMAIN ds |->
            paint(ds[i], IF cB # undefined THEN Val(cB) ELSE Val(cA), filter)]

(* the video layer of a preview frame *)
previewVideoLayer(cA, cB, tr, t, filter) ==
    LET ds == previewVideoDraws(cA, cB, tr, t)
    IN  [i \in DOMAIN ds |->
            paint(ds[i], IF ds[i].clip = "A" THEN Val(cA) ELSE Val(cB), filter)]

NoFrame == [video |-> <<>>, overlays |-> <<>>]
NoSeeks == [A |-> undefined, B |-> undefined]

----------------------------------------------------------------------------
(* State machine: the editor, the preview, the export run *)

DEFAULT_CHROMA_KEY == [enabled |-> FALSE, color |-> <<16, 0, 0, 15, 15, 0, 0>>, similarity |-> 15]

NoKeyed == [preview |-> undefined, export |-> undefined]

INITIAL_EDITOR_STATE ==
    [clips |-> <<>>,
     transition |-> [type |-> "none", duration |-> TicksPerSecond],
     textOverlays |-> <<>>,
     imageOverlays |-> <<>>,
     selectedFilter |-> "None",
     selectedEffect |-> "None",
     crop |-> [x |-> 0, y |-> 0, width |-> 100, height |-> 100],
     playbackSpeed |-> 100]

NoLayer == [preview |-> undefined, export |-> undefined]

NoSnapshot ==
    [clips |-> <<>>, transition |-> INITIAL_EDITOR_STATE.transition,
     textOverlays |-> <<>>, imageOverlays |-> <<>>, playbackSpeed |-> 100,
     totalDuration |-> 0, durationA |-> 0, transitionDuration |-> 0]

(* CropTool unmounted or at rest, and useHistory(INITIAL_EDITOR_STATE) *)
InitTools ==
    /\ crop = INITIAL_EDITOR_STATE.crop
    /\ localCrop = INITIAL_EDITOR_STATE.crop
    /\ activeHandle = undefined
    /\ startCrop = undefined
    /\ history = <<INITIAL_EDITOR_STATE>>
    /\ currentIndex = 0
    /\ loading = {}
    /\ revoked = {}

InitEditor ==
    /\ clips = INITIAL_EDITOR_STATE.clips
    /\ transition = INITIAL_EDITOR_STATE.transition
    /\ textOverlays = INITIAL_EDITOR_STATE.textOverlays
    /\ imageOverlays = INITIAL_EDITOR_STATE.imageOverlays
    /\ playbackSpeed = INITIAL_EDITOR_STATE.playbackSpeed
    /\ currentTime = 0
    /\ clock = 0
    /\ previewSeeks = NoSeeks
    /\ canvas = NoFrame
    /\ isExporting = FALSE
    /\ exportPc = "idle"
    /\ snapshot = NoSnapshot
    /\ currentExportTime = 0
    /\ pending = <<>>
    /\ drawn = <<>>
    /\ exportSeeks = <<>>
    /\ frames = <<>>
    /\ cancelRequested = FALSE
    /\ sourceFault = FALSE
    /\ selectedFilter = INITIAL_EDITOR_STATE.selectedFilter
    /\ selectedEffect = INITIAL_EDITOR_STATE.selectedEffect
    /\ layer = NoLayer
    /\ InitTools

Init ==
    /\ InitEditor
    /\ imageData = <<>>
    /\ chromaKey = DEFAULT_CHROMA_KEY
    /\ keyedData = NoKeyed

(* The VideoPlayer effect that follows a render with these props:          *)
(* updateVideoTimes, then drawFrame.  VideoPlayer is mounted iff hasVideo. *)
Render(cs, tr, tos, ios, t) ==
    IF hasVideo(cs)
    THEN /\ previewSeeks' = updateVideoTimes(clipA(cs), clipB(cs), tr, t)
         /\ canvas' = drawFrame(cs, tr, tos, ios, t)
    ELSE /\ previewSeeks' = NoSeeks
         /\ canvas' = NoFrame

DEFAULT_TRANSFORM == [scale |-> 100, x |-> 0, y |-> 0]
DEFAULT_COLOR_GRADING == [brightness |-> 100, saturation |-> 100, hue |-> 0]

(* handleAddClip: the loaded file with INITIAL_CLIP_STATE, trimEnd set to   *)
(* the duration.  Transform scales are in percent.                          *)
NewClip(d) ==
    [duration |-> d, trimStart |-> 0, trimEnd |-> d, isReversed |-> FALSE,
     startTransform |-> DEFAULT_TRANSFORM, endTransform |-> DEFAULT_TRANSFORM,
     chromaKey |-> DEFAULT_CHROMA_KEY, colorGrading |-> DEFAULT_COLOR_GRADING,
     blur |-> 0]

(* newClips[index] = newClip on a copy of the array *)
setAt(cs, index, c) ==
    IF index + 1 <= Len(cs) THEN [cs EXCEPT ![index + 1] = c]
    ELSE IF index = Len(cs) THEN Append(cs, c)
    ELSE Append(Append(cs, undefined), c)

(* newClips.splice(index, 1) *)
splice1(cs, index) ==
    IF index + 1 > Len(cs) THEN cs
    ELSE SubSeq(cs, 1, index) \o SubSeq(cs, index + 2, Len(cs))

at(cs, index) == IF index + 1 <= Len(cs) THEN cs[index + 1] ELSE undefined

(* handleAddClip: the commit made by video.onseeked *)
AddClip(index, d) ==
    /\ index = 1 => clipB(clips) = undefined
    /\ clips' = setAt(clips, index, Some(NewClip(d)))
    /\ Render(clips', transition, textOverlays, imageOverlays, currentTime)
    /\ UNCHANGED <<transition, textOverlays, imageOverlays, playbackSpeed,
                   currentTime, clock, exportVars, chromaVars, driverVars, gradeVars, cropVars, historyVars>>

RemoveClip(index) ==
    /\ at(clips, index) # undefined
    /\ clips' = splice1(clips, index)
    /\ Render(clips', transition, textOverlays, imageOverlays, currentTime)
    /\ UNCHANGED <<transition, textOverlays, imageOverlays, playbackSpeed,
                   currentTime, clock, exportVars, chromaVars, driverVars, gradeVars, cropVars, historyVars>>

SwapClips ==
    /\ Len(clips) = 2
    /\ clips' = <<clips[2], clips[1]>>
    /\ clips' # clips
    /\ Render(clips', transition, textOverlays, imageOverlays, currentTime)
    /\ UNCHANGED <<transition, textOverlays, imageOverlays, playbackSpeed,
                   currentTime, clock, exportVars, chromaVars, driverVars, gradeVars, cropVars, historyVars>>

ToggleReverseClip(index) ==
    /\ at(clips, index) # undefined
    /\ clips' = [clips EXCEPT ![index + 1] =
                    Some([Val(@) EXCEPT !.isReversed = ~@])]
    /\ Render(clips', transition, textOverlays, imageOverlays, currentTime)
    /\ UNCHANGED <<transition, textOverlays, imageOverlays, playbackSpeed,
                   currentTime, clock, exportVars, chromaVars, driverVars, gradeVars, cropVars, historyVars>>

(* TransitionControls (enabled with two clips) -> handleSetTransition *)
SetTransitionType(type) ==
    /\ clipA(clips) # undefined /\ clipB(clips) # undefined
    /\ transition' = [transition EXCEPT !.type = type]
    /\ transition' # transition
    /\ Render(clips, transition', textOverlays, imageOverlays, currentTime)
    /\ UNCHANGED <<clips, textOverlays, imageOverlays, playbackSpeed,
                   currentTime, clock, exportVars, chromaVars, driverVars, gradeVars, cropVars, historyVars>>

SetTransitionDuration(d) ==
    /\ clipA(clips) # undefined /\ clipB(clips) # undefined
    /\ transition.type # "none"
    /\ transition' = [transition EXCEPT !.duration = d]
    /\ transition' # transition
    /\ Render(clips, transition', textOverlays, imageOverlays, currentTime)
    /\ UNCHANGED <<clips, textOverlays, imageOverlays, playbackSpeed,
                   currentTime, clock, exportVars, chromaVars, driverVars, gradeVars, cropVars, historyVars>>

SetPlaybackSpeed(speed) ==
    /\ hasVideo(clips)
    /\ playbackSpeed' = speed
    /\ playbackSpeed' # playbackSpeed
    /\ UNCHANGED <<clips, transition, textOverlays, imageOverlays, currentTime,
                   clock, previewSeeks, canvas, exportVars, chromaVars, driverVars, gradeVars, cropVars, historyVars>>

handleTimelineClick(time) ==
    /\ hasVideo(clips)
    /\ currentTime' = Max(0, Min(time, totalDuration(clips, transition)))
    /\ currentTime' # currentTime
    /\ Render(clips, transition, textOverlays, imageOverlays, currentTime')
    /\ UNCHANGED <<editorVars, clock, exportVars, chromaVars, driverVars, gradeVars, cropVars, historyVars>>

(* handleAutoEdit: the two segments kept, for the random numbers r1, r2 *)
segmentDuration == 4 * TicksPerSecond
segmentCount == 3
segmentStart(startTime, availableDuration, r) ==
    startTime + (r[1] * (availableDuration \div segmentCount - segmentDuration)) \div r[2]

autoEditSegments(sourceDuration, r1, r2) ==
    LET start1 == segmentStart(0, sourceDuration, r1)
        end1 == start1 + segmentDuration
        start2 == segmentStart(end1, sourceDuration - end1, r2)
        end2 == start2 + segmentDuration
    IN  <<[start |-> start1, end |-> end1], [start |-> start2, end |-> end2]>>

handleAutoEdit(r1, r2, randomFilter, randomEffect) ==
    /\ hasVideo(clips)
    /\ clipA(clips) # undefined
    /\ Val(clipA(clips)).duration >= segmentCount * segmentDuration
    /\ LET sourceClip == Val(clipA(clips))
           segments == autoEditSegments(sourceClip.duration, r1, r2)
       IN  clips' = <<Some([sourceClip EXCEPT
                               !.trimStart = segments[1].start,
                               !.trimEnd = segments[1].end,
                               !.startTransform = [scale |-> 100, x |-> -2, y |-> -2],
                               !.endTransform = [scale |-> 115, x |-> 2, y |-> 2]]),
                      Some([sourceClip EXCEPT
                               !.trimStart = segments[2].start,
                               !.trimEnd = segments[2].end,
                               !.startTransform = [scale |-> 100, x |-> 2, y |-> 2],
                               !.endTransform = [scale |-> 115, x |-> -2, y |-> -2]])>>
    /\ randomFilter \in DOMAIN FILTERS \ {"None"}
    /\ randomEffect \in DOMAIN EFFECTS \ {"None"}
    /\ selectedFilter' = randomFilter
    /\ selectedEffect' = randomEffect
    /\ crop' = INITIAL_EDITOR_STATE.crop
    /\ localCrop' = crop'
    /\ transition' = [type |-> "crossfade", duration |-> TicksPerSecond \div 2]
    /\ textOverlays' = INITIAL_EDITOR_STATE.textOverlays
    /\ imageOverlays' = INITIAL_EDITOR_STATE.imageOverlays
    /\ playbackSpeed' = 120
    /\ currentTime' = 0
    /\ <<clips', transition'>> # <<clips, transition>>
    /\ Render(clips', transition', textOverlays', imageOverlays', currentTime')
    /\ UNCHANGED <<clock, exportVars, chromaVars, driverVars, layer,
                   activeHandle, startCrop, historyVars>>

(* Mask: the shape and the content of the SVG file given for it *)
NoMask == [shape |-> "none", customSvg |-> undefined]
SvgMask(content) == [shape |-> "custom-svg", customSvg |-> Some(content)]

(* The overlay built by handleAddTextOverlay / handleImageFileChange and     *)
(* edited in its editor; src is the data URL of an image overlay, here the  *)
(* kind of file it was read from; no zIndex is set                          *)
NewOverlay(kind, id, start, end, src, mask) ==
    [id |-> id, kind |-> kind, startTime |-> start, endTime |-> end,
     zIndex |-> undefined, animationIn |-> "fade-in", animationOut |-> "fade-out",
     src |-> src, mask |-> mask]

overlayCount == Len(textOverlays) + Len(imageOverlays)

(* handleAddTextOverlay, then handleSaveTextOverlay from the editor *)
SaveTextOverlay(mask) ==
    /\ hasVideo(clips)
    /\ overlayCount < MaxOverlays
    /\ clock' = clock + 1
    /\ textOverlays' = Append(textOverlays,
            NewOverlay("text", clock', currentTime,
                       Min(currentTime + 3 * TicksPerSecond,
                           totalDuration(clips, transition)),
                       undefined, mask))
    /\ Render(clips, transition, textOverlays', imageOverlays, currentTime)
    /\ UNCHANGED <<clips, transition, imageOverlays, playbackSpeed, currentTime,
                   exportVars, chromaVars, driverVars, gradeVars, cropVars, historyVars>>

(* handleImageFileChange, then handleSaveImageOverlay from the editor, in   *)
(* which the user may have typed another start and end time                 *)
SaveImageOverlay(window, src, mask) ==
    /\ hasVideo(clips)
    /\ overlayCount < MaxOverlays
    /\ clock' = clock + 1
    /\ imageOverlays' = Append(imageOverlays,
            IF window = undefined
            THEN NewOverlay("image", clock', currentTime,
                            Min(currentTime + 5 * TicksPerSecond,
                                totalDuration(clips, transition)),
                            Some(src), mask)
            ELSE NewOverlay("image", clock', Val(window)[1], Val(window)[2],
                            Some(src), mask))
    /\ Render(clips, transition, textOverlays, imageOverlays', currentTime)
    /\ UNCHANGED <<clips, transition, textOverlays, playbackSpeed, currentTime,
                   exportVars, chromaVars, driverVars, gradeVars, cropVars, historyVars>>

----------------------------------------------------------------------------
(* Export: handleExport and its drawFrame loop *)

(* The values of the render that created handleExport, closed over by it *)
closure(cs, tr, tos, ios, speed) ==
    [clips |-> cs, transition |-> tr, textOverlays |-> tos,
     imageOverlays |-> ios, playbackSpeed |-> speed,
     totalDuration |-> totalDuration(cs, tr),
     durationA |-> durationA(cs),
     transitionDuration |-> transitionDuration(cs, tr)]

clipOf(s, name) == IF name = "A" THEN Val(clipA(s.clips)) ELSE Val(clipB(s.clips))

(* the video layer of an export frame: drawVideoToCanvas for each draw *)
exportVideoLayer(s, t, filter) ==
    LET ds == exportVideoDraws(s, t)
    IN  [i \in DOMAIN ds |-> paint(ds[i], clipOf(s, ds[i].clip), filter)]

exportStepIgnoringSpeed(s) == frameDuration

exportStep(s) == (frameDuration * s.playbackSpeed) \div 100

(* drawVideoToCanvas up to its await: listen for 'seeked', set currentTime *)
Seek(s, d) == [clip |-> d.clip, time |-> timeToSeek(clipOf(s, d.clip), d.time)]

(* drawFrame from its entry to its first await *)
BeginFrame(s, t) ==
    IF t > s.totalDuration
    THEN /\ exportPc' = "stopping"
         /\ pending' = <<>>
         /\ drawn' = <<>>
         /\ exportSeeks' = <<>>
    ELSE LET ds == exportVideoDraws(s, t)
             sk == Seek(s, ds[1])
         IN  /\ exportPc' = "seeking"
             /\ pending' = ds
             /\ drawn' = <<>>
             /\ exportSeeks' = <<sk>>

(* The SVG files the export preloads: the customSvg of every overlay whose  *)
(* mask shape is custom-svg                                                  *)
uniqueSvgMasks(s) ==
    LET allOverlays == s.textOverlays \o s.imageOverlays
    IN  {Val(allOverlays[i].mask.customSvg) :
            i \in {j \in DOMAIN allOverlays :
                      /\ allOverlays[j].mask.shape = "custom-svg"
                      /\ allOverlays[j].mask.customSvg # undefined}}

(* handleExport up to its first await.  supported is the answer of          *)
(* MediaRecorder.isTypeSupported, context tells whether getContext('2d')    *)
(* gave a context: without one the function returns and isExporting stays   *)
(* set.  With SVG masks to preload it awaits their load events.             *)
handleExport(supported, context) ==
    /\ hasVideo(clips)
    /\ ~isExporting
    /\ clipA(clips) # undefined
    /\ IF ~supported
       THEN UNCHANGED exportVars
       ELSE /\ isExporting' = TRUE
            /\ snapshot' = closure(clips, transition, textOverlays, imageOverlays,
                                    playbackSpeed)
            /\ currentExportTime' = 0
            /\ frames' = <<>>
            /\ IF ~context
               THEN UNCHANGED <<exportPc, pending, drawn, exportSeeks>>
               ELSE IF uniqueSvgMasks(snapshot') # {}
               THEN /\ exportPc' = "preparing"
                    /\ UNCHANGED <<pending, drawn, exportSeeks>>
               ELSE BeginFrame(snapshot', 0)
    /\ UNCHANGED <<editorVars, currentTime, clock, previewSeeks, canvas, chromaVars, driverVars, gradeVars, cropVars, historyVars>>

(* Promise.all over the mask images settles: with every file loaded the     *)
(* recorder is started and the first frame begun; with one failed the       *)
(* catch block alerts and releases isExporting                              *)
MaskPreloadSettled ==
    /\ exportPc = "preparing"
    /\ IF "corrupt" \in uniqueSvgMasks(snapshot)
       THEN /\ isExporting' = FALSE
            /\ exportPc' = "idle"
            /\ snapshot' = NoSnapshot
            /\ UNCHANGED <<currentExportTime, pending, drawn, exportSeeks, frames>>
       ELSE /\ BeginFrame(snapshot, 0)
            /\ UNCHANGED <<isExporting, snapshot, currentExportTime, frames>>
    /\ UNCHANGED <<editorVars, currentTime, clock, previewSeeks, canvas, chromaVars, driverVars, gradeVars, cropVars, historyVars>>

ExportDrawFrameFromEditorState ==
    /\ exportPc = "frame"
    /\ BeginFrame(closure(clips, transition, textOverlays, imageOverlays,
                          playbackSpeed), currentExportTime)
    /\ UNCHANGED <<editorVars, currentTime, clock, previewSeeks, canvas,
                   isExporting, snapshot, currentExportTime, frames, chromaVars, driverVars, gradeVars, cropVars, historyVars>>

(* requestAnimationFrame(drawFrame) fires *)
ExportDrawFrame ==
    /\ exportPc = "frame"
    /\ BeginFrame(snapshot, currentExportTime)
    /\ UNCHANGED <<editorVars, currentTime, clock, previewSeeks, canvas,
                   isExporting, snapshot, currentExportTime, frames, chromaVars, driverVars, gradeVars, cropVars, historyVars>>

(* 'seeked' fires: onSeeked draws the clip; drawFrame resumes *)
ExportSeeked ==
    /\ exportPc = "seeking"
    /\ ~sourceFault
    /\ drawn' = Append(drawn, Head(pending))
    /\ pending' = Tail(pending)
    /\ IF pending' # <<>>
       THEN LET sk == Seek(snapshot, pending'[1])
            IN  /\ exportSeeks' = Append(exportSeeks, sk)
                /\ UNCHANGED <<exportPc, currentExportTime, frames>>
       ELSE /\ frames' = Append(frames,
                    [time |-> currentExportTime,
                     video |-> drawn',
                     seeks |-> exportSeeks,
                     overlays |-> exportOverlayDraws(snapshot, currentExportTime)])
            /\ currentExportTime' = currentExportTime + exportStep(snapshot)
            /\ exportPc' = "frame"
            /\ UNCHANGED exportSeeks
    /\ UNCHANGED <<editorVars, currentTime, clock, previewSeeks, canvas,
                   isExporting, snapshot, chromaVars, driverVars, gradeVars, cropVars, historyVars>>

(* recorder.onstop: the recording is downloaded, the export state released *)
RecorderStopped ==
    /\ exportPc = "stopping"
    /\ isExporting' = FALSE
    /\ exportPc' = "idle"
    /\ frames' = <<>>
    /\ snapshot' = NoSnapshot
    /\ currentExportTime' = 0
    /\ cancelRequested' = FALSE
    /\ UNCHANGED <<editorVars, currentTime, clock, previewSeeks, canvas,
                   pending, drawn, exportSeeks, chromaVars, sourceFault, gradeVars, cropVars, historyVars>>

ExportRun == ExportDrawFrame \/ ExportSeeked \/ RecorderStopped

(* A stop signal from outside reaches a running export.  handleExport       *)
(* returns no handle and registers no listener for one, and drawFrame reads *)
(* no stop flag: the signal changes nothing the export run reads.           *)
cancel ==
    /\ isExporting
    /\ ~cancelRequested
    /\ cancelRequested' = TRUE
    /\ UNCHANGED <<editorVars, currentTime, clock, previewSeeks, canvas, exportVars,
                   chromaVars, sourceFault, gradeVars, cropVars, historyVars>>

(* The <video> element being sought fails (its 'error' event); the promise  *)
(* of drawVideoToCanvas listens for 'seeked' only                           *)
SourceError ==
    /\ exportPc = "seeking"
    /\ ~sourceFault
    /\ sourceFault' = TRUE
    /\ UNCHANGED <<editorVars, currentTime, clock, previewSeeks, canvas, exportVars,
                   chromaVars, cancelRequested, gradeVars, cropVars, historyVars>>

(* keydown ArrowRight / ArrowLeft on window: handleFrameStep; the listener  *)
(* stays registered while the export spinner covers the editor              *)
handleFrameStep(direction) ==
    /\ currentTime' = Max(0, Min(totalDuration(clips, transition),
                                 currentTime + (IF direction = "forward"
                                                THEN frameDuration ELSE -frameDuration)))
    /\ Render(clips, transition, textOverlays, imageOverlays, currentTime')
    /\ UNCHANGED <<editorVars, clock, exportVars, chromaVars, driverVars, gradeVars, cropVars, historyVars>>

(* The editor is covered by the export spinner while isExporting *)
Edit ==
    /\ ~isExporting
    /\ \/ \E index \in {0, 1}, d \in ClipDurations : AddClip(index, d)
       \/ \E index \in {0, 1} : RemoveClip(index)
       \/ SwapClips
       \/ \E index \in {0, 1} : ToggleReverseClip(index)
       \/ \E type \in TransitionTypes : SetTransitionType(type)
       \/ \E d \in SliderDurations : SetTransitionDuration(d)
       \/ \E speed \in SpeedChoices : SetPlaybackSpeed(speed)
       \/ \E time \in TimeGrid : handleTimelineClick(time)

Next ==
    \/ Edit
    \/ \E supported \in BOOLEAN, context \in BOOLEAN : handleExport(supported, context)
    \/ ExportRun

Spec == Init /\ [][Next]_vars

(* The editor with overlays, on a timeline of short clips *)
EditOverlays ==
    /\ ~isExporting
    /\ \/ \E index \in {0, 1}, d \in OverlayClipDurations : AddClip(index, d)
       \/ \E time \in OverlayTimeGrid : handleTimelineClick(time)
       \/ SaveTextOverlay(NoMask)
       \/ \E window \in ImageWindows : SaveImageOverlay(window, "picture", NoMask)

NextOverlay ==
    \/ EditOverlays
    \/ \E supported \in BOOLEAN, context \in BOOLEAN : handleExport(supported, context)
    \/ ExportRun

SpecOverlay == Init /\ [][NextOverlay]_vars

(* The editor on a long source clip cut by Auto Edit into trimmed clips *)
EditAuto ==
    /\ ~isExporting
    /\ \/ \E d \in LongDurations : AddClip(0, d)
       \/ \E r1 \in RandomSamples, r2 \in RandomSamples,
             randomFilter \in AutoFilterSamples, randomEffect \in AutoEffectSamples :
                handleAutoEdit(r1, r2, randomFilter, randomEffect)
       \/ \E index \in {0, 1} : ToggleReverseClip(index)
       \/ \E time \in AutoTimeGrid : handleTimelineClick(time)

NextAuto ==
    \/ EditAuto
    \/ \E supported \in BOOLEAN, context \in BOOLEAN : handleExport(supported, context)
    \/ ExportRun

SpecAuto == Init /\ [][NextAuto]_vars

(* The export driver with its environment: stop signals, failing sources,   *)
(* and the keyboard, which the spinner does not cover                       *)
EditDriver ==
    /\ ~isExporting
    /\ \/ \E index \in {0, 1}, d \in DriverClipDurations : AddClip(index, d)
       \/ \E type \in DriverTransitionTypes : SetTransitionType(type)
       \/ \E d \in DriverSliderDurations : SetTransitionDuration(d)

NextDriver ==
    \/ EditDriver
    \/ \E direction \in {"forward", "backward"} : handleFrameStep(direction)
    \/ \E supported \in BOOLEAN, context \in BOOLEAN : handleExport(supported, context)
    \/ ExportRun
    \/ cancel
    \/ SourceError

SpecDriver == Init /\ [][NextDriver]_vars

(* The export of overlays whose mask or image file may not decode *)
EditAssets ==
    /\ ~isExporting
    /\ \/ \E d \in AssetClipDurations : AddClip(0, d)
       \/ \E mask \in AssetMasks : SaveTextOverlay(mask)
       \/ \E src \in ImageSources : SaveImageOverlay(undefined, src, NoMask)

NextAssets ==
    \/ EditAssets
    \/ \E supported \in BOOLEAN, context \in BOOLEAN : handleExport(supported, context)
    \/ MaskPreloadSettled
    \/ ExportRun

SpecAssets == Init /\ [][NextAssets]_vars

----------------------------------------------------------------------------
(* Pixels.  A canvas value is a fraction <<numerator, denominator>> of one  *)
(* colour channel; the canvas is cleared to opaque black before a frame.    *)

Black == <<0, 1>>

(* Is the point pos = <<x, y, den>> (fractions of the canvas) inside rg? *)
inRegion(rg, pos) ==
    /\ pos[1] * rg.x[2] >= rg.x[1] * pos[3]
    /\ pos[1] * rg.x[2] * rg.w[2] < (rg.x[1] * rg.w[2] + rg.w[1] * rg.x[2]) * pos[3]
    /\ pos[2] * rg.y[2] >= rg.y[1] * pos[3]
    /\ pos[2] * rg.y[2] * rg.h[2] < (rg.y[1] * rg.h[2] + rg.h[1] * rg.y[2]) * pos[3]

(* ctx.globalAlpha = opacity; ctx.drawImage(...): source-over of an opaque source *)
sourceOver(dst, src, alpha) ==
    <<src * alpha[1] * dst[2] + dst[1] * (alpha[2] - alpha[1]), dst[2] * alpha[2]>>

(* The canvas value at pos after fillRect('#000') and the draws, in order;  *)
(* px gives the channel value of clip A's and of clip B's rendered frame.   *)
RECURSIVE drawAll(_, _, _, _)
drawAll(draws, px, pos, acc) ==
    IF draws = <<>> THEN acc
    ELSE drawAll(Tail(draws), px, pos,
                 IF inRegion(Head(draws).region, pos)
                 THEN sourceOver(acc, px[Head(draws).clip], Head(draws).opacity)
                 ELSE acc)

compositePixel(draws, px, pos) == drawAll(draws, px, pos, Black)

(* hexToRgb: a colour string is a sequence of characters, 16 standing for   *)
(* '#' and 0..15 for the hexadecimal digits                                 *)
hexToRgb(hex) ==
    LET digits == IF hex # <<>> /\ hex[1] = 16 THEN Tail(hex) ELSE hex
    IN  IF Len(digits) = 6 /\ \A i \in 1..6 : digits[i] \in 0..15
        THEN Some([r |-> 16 * digits[1] + digits[2],
                   g |-> 16 * digits[3] + digits[4],
                   b |-> 16 * digits[5] + digits[6]])
        ELSE undefined

(* distance < threshold, with distance = sqrt(d2) and                       *)
(* threshold = (similarity / 100) * 255 * sqrt(3), both non-negative        *)
belowOrAtThreshold(d2, similarity) == d2 * 100 * 100 <= similarity * similarity * 255 * 255 * 3

belowThreshold(d2, similarity) == d2 * 100 * 100 < similarity * similarity * 255 * 255 * 3

squaredDistance(p, keyColor) ==
    (p.r - keyColor.r) * (p.r - keyColor.r) + (p.g - keyColor.g) * (p.g - keyColor.g)
        + (p.b - keyColor.b) * (p.b - keyColor.b)

(* VideoPlayer.tsx applyChromaKey; similarity is in hundredths *)
applyChromaKey(data, settings) ==
    LET keyColor == hexToRgb(settings.color)
    IN  IF keyColor = undefined THEN data
        ELSE [i \in 1..Len(data) |->
                IF belowThreshold(squaredDistance(data[i], Val(keyColor)), settings.similarity)
                THEN [data[i] EXCEPT !.a = 0] ELSE data[i]]

(* App.tsx handleExport.applyChromaKey *)
exportApplyChromaKey(data, settings) ==
    LET keyColor == hexToRgb(settings.color)
    IN  IF keyColor = undefined THEN data
        ELSE [i \in 1..Len(data) |->
                IF belowThreshold(squaredDistance(data[i], Val(keyColor)), settings.similarity)
                THEN [data[i] EXCEPT !.a = 0] ELSE data[i]]

----------------------------------------------------------------------------
(* applyChromaKey on the pixels of a decoded frame or overlay image *)

InitChroma ==
    /\ InitEditor
    /\ imageData \in UNION {[1..n -> PixelSamples] : n \in 1..MaxPixels}
    /\ chromaKey \in [enabled : BOOLEAN, color : KeyColors, similarity : Similarities]
    /\ keyedData = NoKeyed

(* drawVideo / drawImageOverlay: if (chromaKey.enabled) applyChromaKey(...) *)
PreviewChromaKey ==
    /\ chromaKey.enabled
    /\ keyedData.preview = undefined
    /\ keyedData' = [keyedData EXCEPT !.preview = Some(applyChromaKey(imageData, chromaKey))]
    /\ UNCHANGED <<editorVars, currentTime, clock, previewSeeks, canvas, exportVars,
                   imageData, chromaKey, driverVars, gradeVars, cropVars, historyVars>>

(* drawVideoToCanvas / drawImageToCanvas of the export *)
ExportChromaKey ==
    /\ chromaKey.enabled
    /\ keyedData.export = undefined
    /\ keyedData' = [keyedData EXCEPT !.export = Some(exportApplyChromaKey(imageData, chromaKey))]
    /\ UNCHANGED <<editorVars, currentTime, clock, previewSeeks, canvas, exportVars,
                   imageData, chromaKey, driverVars, gradeVars, cropVars, historyVars>>

NextChroma == PreviewChromaKey \/ ExportChromaKey

SpecChroma == InitChroma /\ [][NextChroma]_vars

(* The drawing of the video layer, preview and export, on edited clips: a   *)
(* project with clip A, perhaps clip B, a transition, a selected filter and *)
(* effect, and the playhead somewhere                                       *)
InitGrade ==
    /\ \E a \in GradeClipsA :
          \/ clips = <<Some(a)>>
          \/ \E b \in GradeClipsB : clips = <<Some(a), Some(b)>>
    /\ transition \in [type : GradeTransitionTypes, duration : GradeSliderDurations]
    /\ textOverlays = INITIAL_EDITOR_STATE.textOverlays
    /\ imageOverlays = INITIAL_EDITOR_STATE.imageOverlays
    /\ playbackSpeed = INITIAL_EDITOR_STATE.playbackSpeed
    /\ currentTime \in GradeTimeGrid
    /\ currentTime <= totalDuration(clips, transition)
    /\ clock = 0
    /\ previewSeeks = updateVideoTimes(clipA(clips), clipB(clips), transition, currentTime)
    /\ canvas = drawFrame(clips, transition, textOverlays, imageOverlays, currentTime)
    /\ isExporting = FALSE
    /\ exportPc = "idle"
    /\ snapshot = NoSnapshot
    /\ currentExportTime = 0
    /\ pending = <<>>
    /\ drawn = <<>>
    /\ exportSeeks = <<>>
    /\ frames = <<>>
    /\ imageData = <<>>
    /\ chromaKey = DEFAULT_CHROMA_KEY
    /\ keyedData = NoKeyed
    /\ cancelRequested = FALSE
    /\ sourceFault = FALSE
    /\ selectedFilter \in GradeFilters
    /\ selectedEffect \in GradeEffects
    /\ layer = NoLayer
    /\ InitTools

(* VideoPlayer.drawFrame paints the video layer at the playhead *)
PreviewDrawVideo ==
    /\ layer.preview = undefined
    /\ layer' = [layer EXCEPT !.preview =
                    Some(previewVideoLayer(clipA(clips), clipB(clips), transition,
                                           currentTime,
                                           globalFilter(selectedFilter, selectedEffect)))]
    /\ UNCHANGED <<editorVars, currentTime, clock, previewSeeks, canvas, exportVars,
                   chromaVars, driverVars, selectedFilter, selectedEffect,
                   cropVars, historyVars>>

(* handleExport's drawFrame paints the video layer of the frame at the same *)
(* time                                                                     *)
ExportDrawVideo ==
    /\ layer.export = undefined
    /\ layer' = [layer EXCEPT !.export =
                    Some(exportVideoLayer(closure(clips, transition, textOverlays,
                                                  imageOverlays, playbackSpeed),
                                          currentTime,
                                          globalFilter(selectedFilter, selectedEffect)))]
    /\ UNCHANGED <<editorVars, currentTime, clock, previewSeeks, canvas, exportVars,
                   chromaVars, driverVars, selectedFilter, selectedEffect,
                   cropVars, historyVars>>

NextGrade == PreviewDrawVideo \/ ExportDrawVideo

SpecGrade == InitGrade /\ [][NextGrade]_vars

(* CropTool.  The tool is mounted over the preview while cropping is on;    *)
(* a mouse displacement is given in percent of the tool's width and height. *)
Handle == {"topLeft", "top", "topRight", "left", "right",
           "bottomLeft", "bottom", "bottomRight", "move"}

(* activeHandle.includes(part): String.prototype.includes compares case:    *)
(* 'topRight' contains 'Right' but not 'Top', 'right' does not contain      *)
(* 'Right', 'bottomLeft' does not contain 'Bottom'                          *)
includes(handle, part) ==
    CASE part = "Right"  -> handle \in {"topRight", "bottomRight"}
      [] part = "Left"   -> handle \in {"topLeft", "bottomLeft"}
      [] part = "Bottom" -> FALSE
      [] part = "Top"    -> FALSE

(* handleMouseMove: the start crop moved or resized by (dx, dy) *)
dragged(start, handle, dx, dy) ==
    IF handle = "move"
    THEN [start EXCEPT !.x = @ + dx, !.y = @ + dy]
    ELSE LET c1 == IF includes(handle, "Right")
                   THEN [start EXCEPT !.width = @ + dx] ELSE start
             c2 == IF includes(handle, "Left")
                   THEN [c1 EXCEPT !.width = @ - dx, !.x = @ + dx] ELSE c1
             c3 == IF includes(handle, "Bottom")
                   THEN [c2 EXCEPT !.height = @ + dy] ELSE c2
         IN  IF includes(handle, "Top")
             THEN [c3 EXCEPT !.height = @ - dy, !.y = @ + dy] ELSE c3

constrainWithoutXClamp(newCrop, start, handle) ==
    LET c1 == IF newCrop.width < 5
              THEN [newCrop EXCEPT
                       !.x = IF includes(handle, "Left")
                             THEN start.x + start.width - 5 ELSE @,
                       !.width = 5]
              ELSE newCrop
        c2 == IF c1.height < 5
              THEN [c1 EXCEPT
                       !.y = IF includes(handle, "Top")
                             THEN start.y + start.height - 5 ELSE @,
                       !.height = 5]
              ELSE c1
        c4 == [c2 EXCEPT !.y = Max(0, Min(c2.y, 100 - c2.height))]
        c5 == [c4 EXCEPT !.width = Min(c4.width, 100 - c4.x)]
    IN  [c5 EXCEPT !.height = Min(c5.height, 100 - c5.y)]

(* handleMouseMove: "Constraints to keep crop box valid and within bounds" *)
constrain(newCrop, start, handle) ==
    LET c1 == IF newCrop.width < 5
              THEN [newCrop EXCEPT
                       !.x = IF includes(handle, "Left")
                             THEN start.x + start.width - 5 ELSE @,
                       !.width = 5]
              ELSE newCrop
        c2 == IF c1.height < 5
              THEN [c1 EXCEPT
                       !.y = IF includes(handle, "Top")
                             THEN start.y + start.height - 5 ELSE @,
                       !.height = 5]
              ELSE c1
        c3 == [c2 EXCEPT !.x = Max(0, Min(c2.x, 100 - c2.width))]
        c4 == [c3 EXCEPT !.y = Max(0, Min(c3.y, 100 - c3.height))]
        c5 == [c4 EXCEPT !.width = Min(c4.width, 100 - c4.x)]
    IN  [c5 EXCEPT !.height = Min(c5.height, 100 - c5.y)]

handleMouseDown(handle) ==
    /\ hasVideo(clips)
    /\ activeHandle' = Some(handle)
    /\ startCrop' = Some(localCrop)
    /\ UNCHANGED <<editorVars, currentTime, clock, previewSeeks, canvas, exportVars,
                   chromaVars, driverVars, gradeVars, crop, localCrop, historyVars>>

(* the window listener is registered while a handle is active *)
handleMouseMove(dx, dy) ==
    /\ activeHandle # undefined
    /\ startCrop # undefined
    /\ localCrop' = constrain(dragged(Val(startCrop), Val(activeHandle), dx, dy),
                              Val(startCrop), Val(activeHandle))
    /\ UNCHANGED <<editorVars, currentTime, clock, previewSeeks, canvas, exportVars,
                   chromaVars, driverVars, gradeVars, crop, activeHandle, startCrop,
                   historyVars>>

(* handleMouseUp: onCropChange(localCrop) stores the crop in the editor     *)
(* state when it is not the crop already there                              *)
handleMouseUp ==
    /\ activeHandle # undefined
    /\ activeHandle' = undefined
    /\ crop' = IF localCrop # crop THEN localCrop ELSE crop
    /\ UNCHANGED <<editorVars, currentTime, clock, previewSeeks, canvas, exportVars,
                   chromaVars, driverVars, gradeVars, localCrop, startCrop, historyVars>>

NextCrop ==
    \/ \E d \in CropClipDurations : ~hasVideo(clips) /\ AddClip(0, d)
    \/ \E handle \in Handle : handleMouseDown(handle)
    \/ \E dx \in Displacements, dy \in Displacements : handleMouseMove(dx, dy)
    \/ handleMouseUp

SpecCrop == Init /\ [][NextCrop]_vars

(* The overlay animator in the preview: a project with one clip and one     *)
(* text overlay whose animations were chosen in the overlay editor, and the *)
(* playhead moved over it                                                   *)
InitAnimator ==
    /\ \E d \in AnimatorClipDurations : clips = <<Some(NewClip(d))>>
    /\ transition = INITIAL_EDITOR_STATE.transition
    /\ \E end \in AnimatorEndTimes, in \in AnimationInType, out \in AnimationOutType :
          textOverlays = <<[NewOverlay("text", 1, 0, end, undefined, NoMask)
                              EXCEPT !.animationIn = in, !.animationOut = out]>>
    /\ imageOverlays = INITIAL_EDITOR_STATE.imageOverlays
    /\ playbackSpeed = INITIAL_EDITOR_STATE.playbackSpeed
    /\ currentTime = 0
    /\ clock = 1
    /\ previewSeeks = updateVideoTimes(clipA(clips), clipB(clips), transition, currentTime)
    /\ canvas = drawFrame(clips, transition, textOverlays, imageOverlays, currentTime)
    /\ isExporting = FALSE
    /\ exportPc = "idle"
    /\ snapshot = NoSnapshot
    /\ currentExportTime = 0
    /\ pending = <<>>
    /\ drawn = <<>>
    /\ exportSeeks = <<>>
    /\ frames = <<>>
    /\ imageData = <<>>
    /\ chromaKey = DEFAULT_CHROMA_KEY
    /\ keyedData = NoKeyed
    /\ cancelRequested = FALSE
    /\ sourceFault = FALSE
    /\ selectedFilter = INITIAL_EDITOR_STATE.selectedFilter
    /\ selectedEffect = INITIAL_EDITOR_STATE.selectedEffect
    /\ layer = NoLayer
    /\ InitTools

NextAnimator ==
    \/ \E time \in AnimatorTimeGrid : handleTimelineClick(time)
    \/ \E direction \in {"forward", "backward"} : handleFrameStep(direction)

SpecAnimator == InitAnimator /\ [][NextAnimator]_vars

----------------------------------------------------------------------------
(* useHistory and the object URLs of the clips.  The clips of this part     *)
(* carry their url; a url is the number URL.createObjectURL handed out.     *)

MaxHistory == 4
MaxUrls == 3
MaxLoading == 2
HistoryClipDurations == {40}
HistoryTransitionTypes == {"crossfade"}

(* useHistory: const state = history[currentIndex] *)
state == history[currentIndex + 1]

(* The values a render's setState closes over: state, history, currentIndex *)
render == [state |-> state, history |-> history, currentIndex |-> currentIndex]

(* handleAddClip.onseeked: the new clip, INITIAL_CLIP_STATE with file, url, *)
(* duration and trimEnd                                                     *)
LoadedClip(d, url) == [url |-> url] @@ NewClip(d)

(* The App re-renders with editor state s: the destructured fields, and the *)
(* VideoPlayer effect that follows                                          *)
Rerender(s) ==
    /\ clips' = s.clips
    /\ transition' = s.transition
    /\ textOverlays' = s.textOverlays
    /\ imageOverlays' = s.imageOverlays
    /\ selectedFilter' = s.selectedFilter
    /\ selectedEffect' = s.selectedEffect
    /\ crop' = s.crop
    /\ localCrop' = s.crop
    /\ playbackSpeed' = s.playbackSpeed
    /\ Render(s.clips, s.transition, s.textOverlays, s.imageOverlays, currentTime)

(* JSON.stringify(newState) === JSON.stringify(state): the records of the   *)
(* model hold the fields JSON.stringify writes (a File is written as {},    *)
(* a hole as null)                                                          *)
sameJSON(a, b) == a = b

(* useHistory.setState of the render r, with newState = action(r.state)     *)
setState(r, newState) ==
    IF sameJSON(newState, r.state)
    THEN UNCHANGED <<editorVars, previewSeeks, canvas, selectedFilter,
                     selectedEffect, crop, localCrop, history, currentIndex>>
    ELSE /\ history' = Append(SubSeq(r.history, 1, r.currentIndex + 1), newState)
         /\ currentIndex' = Len(history') - 1
         /\ Rerender(newState)

(* the urls URL.revokeObjectURL is called with when clips[index] is dropped *)
urlAt(cs, index) ==
    IF at(cs, index) # undefined THEN {Val(at(cs, index)).url} ELSE {}

(* handleAddClip up to video.src = url: the object URL is created, the      *)
(* callbacks close over the setEditorState of this render                   *)
handleAddClip(index) ==
    /\ clock < MaxUrls
    /\ Cardinality(loading) < MaxLoading
    /\ clock' = clock + 1
    /\ loading' = loading \cup {[index |-> index, url |-> clock', render |-> render]}
    /\ UNCHANGED <<editorVars, currentTime, previewSeeks, canvas, exportVars,
                   chromaVars, driverVars, gradeVars, cropVars, history,
                   currentIndex, revoked>>

(* video.onseeked of a started handleAddClip: the url of the clip replaced  *)
(* is revoked inside the updater, then the new state is committed           *)
onseeked(l, d) ==
    /\ l \in loading
    /\ Len(history) < MaxHistory
    /\ loading' = loading \ {l}
    /\ LET prev == l.render.state
       IN  /\ revoked' = revoked \cup urlAt(prev.clips, l.index)
           /\ setState(l.render,
                       [prev EXCEPT !.clips =
                           setAt(prev.clips, l.index, Some(LoadedClip(d, l.url)))])
    /\ UNCHANGED <<currentTime, clock, exportVars, chromaVars, driverVars,
                   layer, activeHandle, startCrop>>

(* video.onerror of a started handleAddClip *)
onerror(l) ==
    /\ l \in loading
    /\ loading' = loading \ {l}
    /\ revoked' = revoked \cup {l.url}
    /\ UNCHANGED <<editorVars, currentTime, clock, previewSeeks, canvas,
                   exportVars, chromaVars, driverVars, gradeVars, cropVars,
                   history, currentIndex>>

(* handleRemoveClip, from the remove button of a filled slot *)
handleRemoveClip(index) ==
    /\ at(clips, index) # undefined
    /\ Len(history) < MaxHistory
    /\ revoked' = revoked \cup urlAt(state.clips, index)
    /\ setState(render, [state EXCEPT !.clips = splice1(state.clips, index)])
    /\ UNCHANGED <<currentTime, clock, exportVars, chromaVars, driverVars,
                   layer, activeHandle, startCrop, loading>>

(* handleSwapClips *)
handleSwapClips ==
    /\ Len(history) < MaxHistory
    /\ setState(render,
                IF Len(state.clips) = 2
                THEN [state EXCEPT !.clips = <<state.clips[2], state.clips[1]>>]
                ELSE state)
    /\ UNCHANGED <<currentTime, clock, exportVars, chromaVars, driverVars,
                   layer, activeHandle, startCrop, loading, revoked>>

(* TransitionControls (enabled with two clips) -> handleSetTransition *)
handleSetTransition(type) ==
    /\ clipA(clips) # undefined /\ clipB(clips) # undefined
    /\ Len(history) < MaxHistory
    /\ setState(render, [state EXCEPT !.transition = [@ EXCEPT !.type = type]])
    /\ UNCHANGED <<currentTime, clock, exportVars, chromaVars, driverVars,
                   layer, activeHandle, startCrop, loading, revoked>>

(* useHistory.undo *)
undo ==
    /\ IF currentIndex > 0
       THEN /\ currentIndex' = currentIndex - 1
            /\ Rerender(history[currentIndex' + 1])
       ELSE UNCHANGED <<editorVars, previewSeeks, canvas, selectedFilter,
                        selectedEffect, crop, localCrop, currentIndex>>
    /\ UNCHANGED <<currentTime, clock, exportVars, chromaVars, driverVars,
                   layer, activeHandle, startCrop, history, loading, revoked>>

(* useHistory.redo *)
redo ==
    /\ IF currentIndex < Len(history) - 1
       THEN /\ currentIndex' = currentIndex + 1
            /\ Rerender(history[currentIndex' + 1])
       ELSE UNCHANGED <<editorVars, previewSeeks, canvas, selectedFilter,
                        selectedEffect, crop, localCrop, currentIndex>>
    /\ UNCHANGED <<currentTime, clock, exportVars, chromaVars, driverVars,
                   layer, activeHandle, startCrop, history, loading, revoked>>

(* The editor with its undo history.  The slots of ClipManager, the         *)
(* transition controls and the undo / redo buttons are covered by the       *)
(* spinner while isExporting; the callbacks of a started handleAddClip are  *)
(* not.                                                                     *)
NextHistory ==
    \/ \E index \in {0, 1} : handleAddClip(index)
    \/ \E l \in loading, d \in HistoryClipDurations : onseeked(l, d)
    \/ \E l \in loading : onerror(l)
    \/ \E index \in {0, 1} : handleRemoveClip(index)
    \/ handleSwapClips
    \/ \E type \in HistoryTransitionTypes : handleSetTransition(type)
    \/ undo
    \/ redo

SpecHistory == Init /\ [][NextHistory]_vars

(* An export started while a handleAddClip is waiting for its video: the    *)
(* spinner covers the editor, the callbacks of the pending load still fire  *)
SnapshotClipDurations == {40, 80}

NextSnapshot ==
    \/ ~isExporting /\ \E index \in {0, 1} : handleAddClip(index)
    \/ \E l \in loading, d \in SnapshotClipDurations : onseeked(l, d)
    \/ \E l \in loading : onerror(l)
    \/ \E supported \in BOOLEAN, context \in BOOLEAN : handleExport(supported, context)
    \/ ExportRun

SpecSnapshot == Init /\ [][NextSnapshot]_vars

----------------------------------------------------------------------------
(* Properties.  The Expected* operators restate the specification's time   *)
(* mapping directly on the editor state; they are what the code is         *)
(* compared with.                                                          *)

ExpectedTrimmed(cs, k) ==
    IF Len(cs) >= k /\ cs[k] # <<>> THEN cs[k][1].trimEnd - cs[k][1].trimStart ELSE 0

BothClips(cs) == Len(cs) >= 2 /\ cs[1] # <<>> /\ cs[2] # <<>>

ExpectedTransitionDuration(cs, tr) ==
    IF BothClips(cs) /\ tr.type # "none" THEN tr.duration ELSE 0

ExpectedTotalDuration(cs, tr) ==
    Max(0, ExpectedTrimmed(cs, 1) + ExpectedTrimmed(cs, 2) - ExpectedTransitionDuration(cs, tr))

(* C1: in an export run the composited frame times are 0, s, 2s, ... with  *)
(* s = (1/30) * playbackSpeed, each at most totalDuration; the loop never  *)
(* starts a frame for a time beyond totalDuration and stops the recorder   *)
(* at the first such time.                                                 *)
C1_FrameTimes ==
    isExporting =>
        LET s == (TicksPerSecond * snapshot.playbackSpeed) \div (FrameRate * 100)
            total == ExpectedTotalDuration(snapshot.clips, snapshot.transition)
        IN  /\ \A i \in 1..Len(frames) :
                  frames[i].time = (i - 1) * s /\ frames[i].time <= total
            /\ currentExportTime = Len(frames) * s
            /\ exportPc = "seeking" => currentExportTime <= total
            /\ exportPc = "stopping" =>
                  /\ currentExportTime > total
                  /\ currentExportTime - s <= total
                  /\ Len(frames) = total \div s + 1
                  /\ pending = <<>> /\ drawn = <<>>

C1_Witness ==
    /\ exportPc = "stopping"
    /\ snapshot.playbackSpeed = 200
    /\ Len(frames) >= 3
    /\ frames[3].time = 2 * 40

(* C2: totalDuration = max(0, dA + dB - transitionDuration), with the      *)
(* transition counted only when both clips exist and its type is not none; *)
(* the preview, the timeline and the export use the same values; lengths   *)
(* 10 s and 8 s with a 2 s crossfade give 16 s and the window [8 s, 10 s). *)
ExampleClips ==
    <<Some([duration |-> 10 * TicksPerSecond, trimStart |-> 0,
            trimEnd |-> 10 * TicksPerSecond, isReversed |-> FALSE]),
      Some([duration |-> 9 * TicksPerSecond, trimStart |-> TicksPerSecond,
            trimEnd |-> 9 * TicksPerSecond, isReversed |-> FALSE])>>
ExampleTransition == [type |-> "crossfade", duration |-> 2 * TicksPerSecond]

C2_TotalDuration ==
    /\ totalDuration(clips, transition) = ExpectedTotalDuration(clips, transition)
    /\ durationA(clips) = ExpectedTrimmed(clips, 1)
    /\ durationB(clips) = ExpectedTrimmed(clips, 2)
    /\ transitionDuration(clips, transition) = ExpectedTransitionDuration(clips, transition)
    /\ playerDurationA(clipA(clips)) = ExpectedTrimmed(clips, 1)
    /\ playerTransitionDuration(clipA(clips), clipB(clips), transition)
          = ExpectedTransitionDuration(clips, transition)
    /\ playerTransitionStartTime(clipA(clips), clipB(clips), transition)
          = ExpectedTrimmed(clips, 1) - ExpectedTransitionDuration(clips, transition)
    /\ timelineDurationA(clips) = ExpectedTrimmed(clips, 1)
    /\ timelineTransitionDuration(clips, transition)
          = ExpectedTransitionDuration(clips, transition)
    /\ isExporting =>
          /\ snapshot.totalDuration
                = ExpectedTotalDuration(snapshot.clips, snapshot.transition)
          /\ snapshot.durationA = ExpectedTrimmed(snapshot.clips, 1)
          /\ snapshot.transitionDuration
                = ExpectedTransitionDuration(snapshot.clips, snapshot.transition)
    /\ totalDuration(ExampleClips, ExampleTransition) = 16 * TicksPerSecond
    /\ playerTransitionStartTime(ExampleClips[1], ExampleClips[2], ExampleTransition)
          = 8 * TicksPerSecond
    /\ playerDurationA(ExampleClips[1]) = 10 * TicksPerSecond

C2_Witness ==
    /\ BothClips(clips)
    /\ transition.type = "crossfade"
    /\ transition.duration = 60
    /\ totalDuration(clips, transition) = 100
    /\ isExporting
    /\ snapshot.totalDuration = 100

(* What a list of video draws shows: clip A alone, clip B alone, both     *)
(* (a transition), or nothing but the black background.                    *)
Shown(ds) ==
    LET cl == {ds[i].clip : i \in DOMAIN ds}
    IN  IF cl = {"A"} THEN "A-only"
        ELSE IF cl = {"B"} THEN "B-only"
        ELSE IF cl = {"A", "B"} THEN "transition"
        ELSE "black"

(* The local time at which the draws show clip c *)
TimesOf(ds, c) == {ds[i].time : i \in {j \in DOMAIN ds : ds[j].clip = c}}

ExpectedState(cs, tr, t) ==
    LET dA == ExpectedTrimmed(cs, 1)
        td == ExpectedTransitionDuration(cs, tr)
    IN  IF t < dA - td THEN "A-only"
        ELSE IF t >= dA THEN "B-only"
        ELSE "transition"

(* the video layer agrees with the specification's state at time t *)
MatchesState(ds, cs, tr, t) ==
    LET dA == ExpectedTrimmed(cs, 1)
        td == ExpectedTransitionDuration(cs, tr)
        st == ExpectedState(cs, tr, t)
    IN  /\ Shown(ds) = st
        /\ st \in {"A-only", "transition"} => TimesOf(ds, "A") = {t}
        /\ st \in {"B-only", "transition"} => TimesOf(ds, "B") = {t - (dA - td)}
        /\ st \in {"A-only", "B-only"} => ds = <<Draw(ds[1].clip, ds[1].time, One, FullFrame)>>

(* C3: with both clips present every t in [0, totalDuration] is in exactly *)
(* one state: A-only when t < dA - td (A at t), B-only when t >= dA (B at  *)
(* t - (dA - td)), the transition otherwise; in the preview and in export. *)
C3_ExactlyOneState ==
    /\ BothClips(clips) =>
          /\ \A t \in 0..ExpectedTotalDuration(clips, transition) :
                /\ MatchesState(drawFrame(clips, transition, textOverlays,
                                          imageOverlays, t).video,
                                clips, transition, t)
                /\ MatchesState(exportVideoDraws(closure(clips, transition, textOverlays,
                                                         imageOverlays, playbackSpeed), t),
                                clips, transition, t)
          /\ currentTime <= ExpectedTotalDuration(clips, transition) =>
                MatchesState(canvas.video, clips, transition, currentTime)
    /\ BothClips(snapshot.clips) =>
          \A i \in 1..Len(frames) :
              MatchesState(frames[i].video, snapshot.clips, snapshot.transition,
                           frames[i].time)

C3_Witness ==
    /\ BothClips(snapshot.clips)
    /\ snapshot.transition.type # "none"
    /\ {Shown(frames[i].video) : i \in 1..Len(frames)} = {"A-only", "transition", "B-only"}
    /\ BothClips(clips)
    /\ Shown(canvas.video) = "B-only"
    /\ currentTime = ExpectedTrimmed(clips, 1)

(* a fraction <<num, den>> equals n / d *)
FracEq(f, n, d) == f[2] > 0 /\ d > 0 /\ f[1] * d = n * f[2]

(* The progress a transition frame was drawn with: a crossfade draws A at  *)
(* opacity 1 - progress, a wipe clips B to the fraction progress.          *)
ShowsProgress(ds, type, n, d) ==
    LET a == CHOOSE i \in DOMAIN ds : ds[i].clip = "A"
        b == CHOOSE i \in DOMAIN ds : ds[i].clip = "B"
    IN  IF type = "crossfade" THEN FracEq(ds[a].opacity, d - n, d)
        ELSE /\ ds[b].opacity = One
             /\ IF type \in {"wipe-left", "wipe-right"}
                THEN FracEq(ds[b].region.w, n, d) /\ FracEq(ds[b].region.h, 1, 1)
                ELSE FracEq(ds[b].region.h, n, d) /\ FracEq(ds[b].region.w, 1, 1)

InWindow(ds, cs, tr, t) ==
    LET dA == ExpectedTrimmed(cs, 1)
        td == ExpectedTransitionDuration(cs, tr)
        n == t - (dA - td)
    IN  /\ TimesOf(ds, "B") = {n}
        /\ 0 <= n /\ n <= td
        /\ ShowsProgress(ds, tr.type, n, td)

(* C4: inside the transition window clip B is shown at local time          *)
(* t - (dA - td) and progress = (t - (dA - td)) / td lies in [0, 1]; at    *)
(* t = 9 s of the window [8 s, 10 s) progress is 0.5.                      *)
C4_TransitionProgress ==
    /\ BothClips(clips) /\ transition.type # "none" =>
          \A t \in 0..ExpectedTotalDuration(clips, transition) :
              ExpectedState(clips, transition, t) = "transition" =>
                  /\ InWindow(drawFrame(clips, transition, textOverlays,
                                        imageOverlays, t).video, clips, transition, t)
                  /\ InWindow(exportVideoDraws(closure(clips, transition, textOverlays,
                                                       imageOverlays, playbackSpeed), t),
                              clips, transition, t)
    /\ \A i \in 1..Len(frames) :
          Shown(frames[i].video) = "transition" =>
              InWindow(frames[i].video, snapshot.clips, snapshot.transition,
                       frames[i].time)
    /\ LET ds == previewVideoDraws(ExampleClips[1], ExampleClips[2], ExampleTransition,
                                   9 * TicksPerSecond)
           ex == exportVideoDraws(closure(ExampleClips, ExampleTransition, <<>>, <<>>, 100),
                                  9 * TicksPerSecond)
       IN  /\ FracEq(ds[2].opacity, 1, 2) /\ FracEq(ds[1].opacity, 1, 2)
           /\ ds[2].clip = "B" /\ ds[2].time = TicksPerSecond
           /\ FracEq(ex[2].opacity, 1, 2)
           /\ ex[1].clip = "B" /\ ex[1].time = TicksPerSecond

C4_Witness ==
    /\ BothClips(snapshot.clips)
    /\ snapshot.transition.type = "crossfade"
    /\ \E i \in 1..Len(frames) :
          /\ Shown(frames[i].video) = "transition"
          /\ frames[i].time = 40
          /\ TimesOf(frames[i].video, "B") = {20}
          /\ FracEq(frames[i].video[2].opacity, 2, 3)
    /\ Shown(canvas.video) = "transition"
    /\ currentTime = 40

ExpectedSourceTime(clip, L) ==
    IF clip.isReversed THEN clip.trimEnd - L ELSE clip.trimStart + L

(* local times probed in a clip of trimmed length d *)
LocalTimes(d) == {L \in {0, 1, d \div 3, d \div 2, d - 1, d} : 0 <= L /\ L <= d}

InTrim(clip, time) == clip.trimStart <= time /\ time <= clip.trimEnd

(* C5: a clip shown at local time L is sought to trimStart + L, or to      *)
(* trimEnd - L when reversed: a reversed clip starts at trimEnd and ends   *)
(* at trimStart, and for L in [0, d] the source time stays inside          *)
(* [trimStart, trimEnd]; in the preview and in export.                     *)
C5_SourceTime ==
    /\ \A k \in 1..Len(clips) : clips[k] # undefined =>
          LET c == Val(clips[k])
              d == c.trimEnd - c.trimStart
          IN  /\ \A L \in LocalTimes(d) :
                    /\ timeToSeek(c, L) = ExpectedSourceTime(c, L)
                    /\ InTrim(c, timeToSeek(c, L))
              /\ c.isReversed => timeToSeek(c, 0) = c.trimEnd /\ timeToSeek(c, d) = c.trimStart
    /\ BothClips(clips) =>
          LET cA == Val(clips[1])
              cB == Val(clips[2])
              start == ExpectedTrimmed(clips, 1) - ExpectedTransitionDuration(clips, transition)
          IN  /\ currentTime <= ExpectedTrimmed(clips, 1) =>
                    /\ previewSeeks.A = Some(ExpectedSourceTime(cA, currentTime))
                    /\ InTrim(cA, Val(previewSeeks.A))
              /\ (currentTime >= start /\ currentTime <= ExpectedTotalDuration(clips, transition)) =>
                    /\ previewSeeks.B = Some(ExpectedSourceTime(cB, currentTime - start))
                    /\ InTrim(cB, Val(previewSeeks.B))
    /\ \A i \in 1..Len(frames) :
          /\ Len(frames[i].seeks) = Len(frames[i].video)
          /\ \A j \in 1..Len(frames[i].video) :
                LET c == IF frames[i].video[j].clip = "A" THEN Val(snapshot.clips[1])
                         ELSE Val(snapshot.clips[2])
                IN  /\ frames[i].seeks[j].clip = frames[i].video[j].clip
                    /\ frames[i].seeks[j].time = ExpectedSourceTime(c, frames[i].video[j].time)
                    /\ InTrim(c, frames[i].seeks[j].time)

C5_Witness ==
    /\ BothClips(snapshot.clips)
    /\ Val(snapshot.clips[2]).isReversed
    /\ Val(snapshot.clips[2]).trimStart > 0
    /\ Val(snapshot.clips[2]).trimEnd < Val(snapshot.clips[2]).duration
    /\ \E i \in 1..Len(frames) : \E j \in 1..Len(frames[i].seeks) :
          /\ frames[i].seeks[j].clip = "B"
          /\ frames[i].video[j].time > 0
          /\ frames[i].seeks[j].time = Val(snapshot.clips[2]).trimEnd - frames[i].video[j].time
    /\ currentTime = ExpectedTotalDuration(clips, transition)
    /\ previewSeeks.B = Some(Val(clips[2]).trimStart)

OnlyClipA(cs) == Len(cs) >= 1 /\ cs[1] # undefined /\ (Len(cs) < 2 \/ cs[2] = undefined)

(* C6: with clip A alone, every t in [0, totalDuration], t = totalDuration *)
(* = dA included, shows clip A at local time t in the preview and in the   *)
(* export, never a black frame and never clip B, whatever the transition.  *)
C6_OnlyClipA ==
    /\ OnlyClipA(clips) =>
          /\ \A t \in 0..ExpectedTotalDuration(clips, transition) :
                /\ drawFrame(clips, transition, textOverlays, imageOverlays, t).video
                      = <<Draw("A", t, One, FullFrame)>>
                /\ exportVideoDraws(closure(clips, transition, textOverlays,
                                            imageOverlays, playbackSpeed), t)
                      = <<Draw("A", t, One, FullFrame)>>
          /\ currentTime <= ExpectedTotalDuration(clips, transition) =>
                canvas.video = <<Draw("A", currentTime, One, FullFrame)>>
    /\ OnlyClipA(snapshot.clips) =>
          \A i \in 1..Len(frames) :
              frames[i].video = <<Draw("A", frames[i].time, One, FullFrame)>>

VisibleAt(o, t) == o.startTime <= t /\ t <= o.endTime

Ids(draws) == {draws[i].id : i \in DOMAIN draws}

VisibleIds(os, t) == {os[i].id : i \in {j \in DOMAIN os : VisibleAt(os[j], t)}}

ExampleOverlay ==
    [id |-> 1, kind |-> "text", startTime |-> 2 * TicksPerSecond,
     endTime |-> 5 * TicksPerSecond, zIndex |-> undefined,
     animationIn |-> "none", animationOut |-> "none",
     src |-> undefined, mask |-> NoMask]

(* times probed around the window of an overlay *)
OverlayTimes(o) ==
    {t \in {0, o.startTime - 1, o.startTime, o.startTime + 1,
            o.endTime - 1, o.endTime, o.endTime + 1} : t >= 0}

(* C7: an overlay, text or image, is visible at t iff startTime <= t <=    *)
(* endTime, in the preview and in the export filter; with startTime 2 s    *)
(* and endTime 5 s it is invisible just before 2 s and just after 5 s and  *)
(* visible at 2 s and at 5 s.                                              *)
C7_OverlayVisibility ==
    /\ \A i \in 1..Len(textOverlays \o imageOverlays) :
          LET o == (textOverlays \o imageOverlays)[i]
          IN  \A t \in OverlayTimes(o) :
                  /\ getOverlayRenderState(o, t).isVisible <=> VisibleAt(o, t)
                  /\ exportDrawEach(<<o>>, t) # <<>> <=> VisibleAt(o, t)
    /\ hasVideo(clips) =>
          Ids(canvas.overlays) = VisibleIds(textOverlays \o imageOverlays, currentTime)
    /\ \A i \in 1..Len(frames) :
          Ids(frames[i].overlays)
              = VisibleIds(snapshot.textOverlays \o snapshot.imageOverlays, frames[i].time)
    /\ \A t \in {2 * TicksPerSecond, 5 * TicksPerSecond} :
          /\ getOverlayRenderState(ExampleOverlay, t).isVisible
          /\ exportDrawEach(<<ExampleOverlay>>, t) # <<>>
    /\ \A t \in {2 * TicksPerSecond - 1, 5 * TicksPerSecond + 1} :
          /\ ~getOverlayRenderState(ExampleOverlay, t).isVisible
          /\ exportDrawEach(<<ExampleOverlay>>, t) = <<>>

C7_Witness ==
    \E k \in 1..Len(imageOverlays) :
        LET o == imageOverlays[k]
        IN  /\ o.startTime = 20 /\ o.endTime = 40
            /\ currentTime = o.endTime
            /\ o.id \in Ids(canvas.overlays)
            /\ \E i \in 1..Len(frames) :
                  frames[i].time = o.endTime /\ o.id \in Ids(frames[i].overlays)
            /\ \E i \in 1..Len(frames) :
                  frames[i].time < o.startTime /\ o.id \notin Ids(frames[i].overlays)
            /\ Len(textOverlays) = 1

OverlayOf(os, id) == CHOOSE o \in {os[i] : i \in DOMAIN os} : o.id = id

(* the draws follow ascending zIndex, equal zIndex in creation order; an   *)
(* overlay's id is the clock value at its creation                         *)
InZOrder(draws, os) ==
    \A i, j \in DOMAIN draws : i < j =>
        LET a == OverlayOf(os, draws[i].id)
            b == OverlayOf(os, draws[j].id)
        IN  IF a.zIndex = b.zIndex THEN a.id < b.id
            ELSE /\ a.zIndex # undefined /\ b.zIndex # undefined
                 /\ Val(a.zIndex) < Val(b.zIndex)

(* C8: in the preview and in the export the visible overlays, text and     *)
(* image together, are drawn in ascending zIndex, overlays of equal zIndex *)
(* in order of creation.                                                   *)
C8_ZOrder ==
    /\ InZOrder(canvas.overlays, textOverlays \o imageOverlays)
    /\ \A i \in 1..Len(frames) :
          InZOrder(frames[i].overlays, snapshot.textOverlays \o snapshot.imageOverlays)

ExpectedKeyed(p, key, similarity) ==
    ((p.r - key.r) * (p.r - key.r) + (p.g - key.g) * (p.g - key.g)
        + (p.b - key.b) * (p.b - key.b)) * 10000 < similarity * similarity * 195075

KeyedAsSpecified(in, out, settings) ==
    LET key == [r |-> 16 * settings.color[2] + settings.color[3],
                g |-> 16 * settings.color[4] + settings.color[5],
                b |-> 16 * settings.color[6] + settings.color[7]]
    IN  /\ Len(out) = Len(in)
        /\ \A i \in 1..Len(in) :
              /\ out[i].r = in[i].r /\ out[i].g = in[i].g /\ out[i].b = in[i].b
              /\ out[i].a = IF ExpectedKeyed(in[i], key, settings.similarity)
                            THEN 0 ELSE in[i].a
              /\ (in[i].r = key.r /\ in[i].g = key.g /\ in[i].b = key.b
                    /\ settings.similarity > 0) => out[i].a = 0

(* C9: applyChromaKey sets alpha to 0 exactly for the pixels whose RGB     *)
(* distance to the key colour is strictly below similarity * 255 * sqrt 3  *)
(* and changes nothing else; a pixel equal to the key colour is keyed out  *)
(* for every similarity > 0.                                               *)
C9_ChromaKey ==
    /\ keyedData.preview # undefined =>
          KeyedAsSpecified(imageData, Val(keyedData.preview), chromaKey)
    /\ keyedData.export # undefined =>
          KeyedAsSpecified(imageData, Val(keyedData.export), chromaKey)

C9_Witness ==
    /\ chromaKey.similarity = 20
    /\ chromaKey.color = <<16, 0, 0, 0, 0, 0, 0>>
    /\ imageData = <<Pixel(51, 51, 51, 255), Pixel(0, 0, 0, 128)>>
    /\ keyedData.preview = Some(<<Pixel(51, 51, 51, 255), Pixel(0, 0, 0, 0)>>)
    /\ keyedData.export = keyedData.preview

(* the canvas value equals A * (1 - k / td) + B * k / td *)
IsCrossfade(out, px, k, td) ==
    out[2] > 0 /\ out[1] * td = (px.A * (td - k) + px.B * k) * out[2]

CrossfadeOutput(ds, cs, tr, t) ==
    LET k == t - (ExpectedTrimmed(cs, 1) - ExpectedTransitionDuration(cs, tr))
    IN  \A a \in ChannelSamples, b \in ChannelSamples :
            IsCrossfade(compositePixel(ds, [A |-> a, B |-> b], <<0, 0, 1>>),
                        [A |-> a, B |-> b], k, tr.duration)

(* C10: during a crossfade with progress p the composited output of the    *)
(* preview and of the export is A * (1 - p) + B * p at every pixel, for    *)
(* opaque frames A and B.                                                  *)
C10_Crossfade ==
    /\ (BothClips(clips) /\ transition.type = "crossfade"
          /\ currentTime <= ExpectedTotalDuration(clips, transition)
          /\ ExpectedState(clips, transition, currentTime) = "transition") =>
          CrossfadeOutput(canvas.video, clips, transition, currentTime)
    /\ (BothClips(snapshot.clips) /\ snapshot.transition.type = "crossfade") =>
          \A i \in 1..Len(frames) :
              ExpectedState(snapshot.clips, snapshot.transition, frames[i].time)
                    = "transition" =>
                  CrossfadeOutput(frames[i].video, snapshot.clips, snapshot.transition,
                                  frames[i].time)

(* C11: once a stop signal has been given to a running export, no seek is  *)
(* started and no frame is emitted any more, and the next step the export  *)
(* takes releases it: isExporting becomes false.                           *)
C11_Cancellation ==
    [][cancelRequested =>
          /\ exportSeeks' \in {exportSeeks, <<>>}
          /\ frames' \in {frames, <<>>}
          /\ exportVars' # exportVars => ~isExporting']_vars

(* the steps the export takes by itself *)
DriverStep == ExportRun \/ MaskPreloadSettled

(* C12: every handleExport that sets isExporting returns to Idle on every  *)
(* path (unsupported format, no canvas context, mask preload failure,      *)
(* completion, a seek that never completes): an export that has not        *)
(* returned to Idle always has a step of its own left to take.             *)
C12_ReturnsToIdle == isExporting => ENABLED DriverStep

(* where the running export has left the element of clip name: the time of *)
(* its last seek of that element in the current frame                      *)
ExportPosition(name) ==
    LET idx == {i \in DOMAIN exportSeeks : exportSeeks[i].clip = name}
    IN  IF idx = {} THEN undefined
        ELSE Some(exportSeeks[CHOOSE i \in idx : \A j \in idx : j <= i].time)

(* C13: while an export is running no preview-driven action (frame step,   *)
(* timeline click, playback tick, the VideoPlayer effect) seeks an element *)
(* the export is using: the preview never assigns the currentTime of a     *)
(* video the export has positioned.                                        *)
C13_NoPreviewSeekDuringExport ==
    [][(isExporting /\ isExporting' /\ previewSeeks' # previewSeeks) =>
          \A name \in {"A", "B"} :
              (ExportPosition(name) # undefined /\ previewSeeks'[name] # undefined) =>
                  ~drifted(Val(ExportPosition(name)), Val(previewSeeks'[name]))]_vars

(* C15: when a source cannot complete a seek the export run aborts and     *)
(* returns to Idle; it does not stay suspended in Running: a run whose     *)
(* source has failed still has a step to take.                             *)
C15_SeekFailure == (isExporting /\ sourceFault) => ENABLED ExportRun

(* an overlay of the export's snapshot has an asset that does not decode:    *)
(* its image, or the SVG of its custom mask                                  *)
HasFailedAsset(s) ==
    \/ "corrupt" \in uniqueSvgMasks(s)
    \/ \E i \in DOMAIN s.imageOverlays : failsToDecode(s.imageOverlays[i])

(* C14: a custom mask or an overlay image that fails to decode is fatal to   *)
(* the start of the export: no frame at all is produced, the export never    *)
(* renders a frame with the failed asset left out.                           *)
C14_AssetDecodeFailure == HasFailedAsset(snapshot) => frames = <<>>

(* the playhead is in the A-only range of a project with two clips *)
InAOnlyRange ==
    /\ BothClips(clips)
    /\ currentTime < ExpectedTrimmed(clips, 1) - ExpectedTransitionDuration(clips, transition)

(* the layers painted for the project with b in the place of clip B *)
PreviewLayerWith(b) ==
    previewVideoLayer(clipA(clips), Some(b), transition, currentTime,
                      globalFilter(selectedFilter, selectedEffect))
ExportLayerWith(b) ==
    exportVideoLayer(closure(<<clips[1], Some(b)>>, transition, textOverlays,
                             imageOverlays, playbackSpeed),
                     currentTime, globalFilter(selectedFilter, selectedEffect))

(* C16: in the A-only range the video layer depends only on clip A at local *)
(* time t: with any other clip B (trim, transform, chroma key, grading,     *)
(* blur, reversal) and the same clip A, transition and t, the preview and   *)
(* the export draw the same clip at the same local time with the same       *)
(* source rectangle and the same filter.                                    *)
C16_AOnlyIndependentOfB ==
    InAOnlyRange =>
        \A b \in GradeClipsB :
            /\ layer.preview # undefined => Val(layer.preview) = PreviewLayerWith(b)
            /\ layer.export # undefined => Val(layer.export) = ExportLayerWith(b)

C16_Witness ==
    /\ InAOnlyRange
    /\ currentTime = 20
    /\ transition.type = "crossfade"
    /\ Val(clipA(clips)).blur = 5
    /\ Val(clipB(clips)).blur = 3
    /\ layer.preview # undefined
    /\ layer.export # undefined
    /\ Len(Val(layer.preview)) = 1
    /\ Val(layer.preview)[1].clip = "A"
    /\ Val(layer.preview)[1].time = 20
    /\ Val(layer.preview) = Val(layer.export)

(* the effect stages of one painted clip frame, in the order they act on    *)
(* the pixels: applyChromaKey on the source, then the canvas filter list    *)
Stages(p) == (IF p.keyed THEN <<Fn("chroma-key", 0, "")>> ELSE <<>>) \o p.filter

(* the order the specification gives: chroma key, blur, brightness /        *)
(* saturation / hue, then the selected filter followed by the selected      *)
(* effect                                                                   *)
ExpectedStages(clip, filterName, effectName) ==
    (IF clip.chromaKey.enabled THEN <<Fn("chroma-key", 0, "")>> ELSE <<>>)
    \o (IF clip.blur > 0 THEN <<Fn("blur", 10 * clip.blur, "px")>> ELSE <<>>)
    \o (IF clip.colorGrading.brightness # 100
        THEN <<Fn("brightness", 10 * clip.colorGrading.brightness, "%")>> ELSE <<>>)
    \o (IF clip.colorGrading.saturation # 100
        THEN <<Fn("saturate", 10 * clip.colorGrading.saturation, "%")>> ELSE <<>>)
    \o (IF clip.colorGrading.hue # 0
        THEN <<Fn("hue-rotate", 10 * clip.colorGrading.hue, "deg")>> ELSE <<>>)
    \o (IF filterName # "None" THEN FILTERS[filterName] ELSE <<>>)
    \o (IF effectName # "None" THEN EFFECTS[effectName] ELSE <<>>)

StagesAsSpecified(ps) ==
    \A i \in DOMAIN ps :
        Stages(ps[i]) = ExpectedStages(IF ps[i].clip = "A" THEN Val(clipA(clips))
                                       ELSE Val(clipB(clips)),
                                       selectedFilter, selectedEffect)

(* C19: every painted clip frame, in the preview and in the export, has its *)
(* effect stages in the order chroma key, blur, brightness / saturation /   *)
(* hue, global filter chain (filter, then effect): the global chain comes   *)
(* after the clip's blur and grading.                                       *)
C19_StageOrder ==
    /\ layer.preview # undefined => StagesAsSpecified(Val(layer.preview))
    /\ layer.export # undefined => StagesAsSpecified(Val(layer.export))

(* the composition plan the preview's drawFrame gives for the export's      *)
(* snapshot at time t                                                       *)
PreviewPlan(s, t) == drawFrame(s.clips, s.transition, s.textOverlays, s.imageOverlays, t)

(* C17: preview and export use the same compositing logic: every frame the  *)
(* export composites has the composition plan the preview's drawFrame gives *)
(* for the same snapshot and the same time: the same clips with the same    *)
(* local times and opacities, the same visible overlays in the same order,  *)
(* each with the same opacity, translate and scale.                         *)
C17_SamePlan ==
    \A i \in DOMAIN frames :
        /\ frames[i].video = PreviewPlan(snapshot, frames[i].time).video
        /\ frames[i].overlays = PreviewPlan(snapshot, frames[i].time).overlays

(* C18: in every reachable editor state with two clips and a transition     *)
(* type other than none, transition.duration exceeds neither clip's trimmed *)
(* duration.                                                                *)
C18_TransitionClamped ==
    (BothClips(clips) /\ transition.type # "none") =>
        /\ transition.duration <= ExpectedTrimmed(clips, 1)
        /\ transition.duration <= ExpectedTrimmed(clips, 2)

(* t lies in the in-window and in the out-window of overlay o, and both its *)
(* animations set the opacity                                               *)
InBothWindows(o, t) ==
    /\ VisibleAt(o, t)
    /\ t - o.startTime < animationDuration
    /\ o.endTime - t < animationDuration
    /\ o.animationIn \in {"fade-in", "slide-in-center"}
    /\ o.animationOut \in {"fade-out", "slide-out-center"}

(* C20: for an overlay drawn at a time in both its in-window and its        *)
(* out-window, with both animations affecting opacity, the opacity is the   *)
(* product of the in opacity (t - startTime) / 0.5 s and the out opacity    *)
(* (endTime - t) / 0.5 s.  Opacities are kept multiplied by                 *)
(* animationDuration.                                                       *)
C20_OpacityProduct ==
    \A i \in DOMAIN canvas.overlays :
        LET o == OverlayOf(textOverlays \o imageOverlays, canvas.overlays[i].id)
        IN  InBothWindows(o, currentTime) =>
                canvas.overlays[i].opacity * animationDuration =
                    (currentTime - o.startTime) * (o.endTime - currentTime)

(* the translate and scale of the out animation alone at progress p / AD,   *)
(* multiplied by animationDuration                                          *)
OutAlone(o, t) ==
    LET AD == animationDuration
        p == AD - (o.endTime - t)
    IN  [x |-> CASE o.animationOut = "slide-out-left"  -> -100 * p
                 [] o.animationOut = "slide-out-right" -> 100 * p
                 [] OTHER -> 0,
         y |-> CASE o.animationOut = "slide-out-top"    -> -100 * p
                 [] o.animationOut = "slide-out-bottom" -> 100 * p
                 [] OTHER -> 0,
         scale |-> IF o.animationOut = "slide-out-center" THEN AD - p ELSE AD]

(* C21: at a time in both the in-window and the out-window of an overlay    *)
(* whose animationOut is not none, the translate and the scale of the       *)
(* overlay are those of the out animation alone; nothing set by the in      *)
(* animation survives.                                                      *)
C21_OutTakesPrecedence ==
    \A i \in DOMAIN canvas.overlays :
        LET o == OverlayOf(textOverlays \o imageOverlays, canvas.overlays[i].id)
        IN  (/\ currentTime - o.startTime < animationDuration
             /\ o.endTime - currentTime < animationDuration
             /\ o.animationOut # "none") =>
                canvas.overlays[i].transform = OutAlone(o, currentTime)

AllOverlays == textOverlays \o imageOverlays

(* C22: every overlay saved into the editor state has a zIndex, and the     *)
(* zIndex values of all text and image overlays are pairwise distinct (a    *)
(* fresh top zIndex is assigned on creation).                               *)
C22_FreshZIndex ==
    /\ \A i \in DOMAIN AllOverlays : AllOverlays[i].zIndex # undefined
    /\ \A i, j \in DOMAIN AllOverlays :
          i # j => AllOverlays[i].zIndex # AllOverlays[j].zIndex

(* C25: every overlay stored in the editor state has startTime < endTime,   *)
(* wherever the playhead was in [0, totalDuration] when it was added.       *)
C25_OverlayWindow ==
    \A i \in DOMAIN AllOverlays : AllOverlays[i].startTime < AllOverlays[i].endTime

(* C28: in every reachable editor state the clips list is dense and has at  *)
(* most two entries: there is no empty slot before clip B, so hasVideo      *)
(* implies that clip A is defined.                                          *)
C28_ClipsDense ==
    /\ Len(clips) <= 2
    /\ \A i \in DOMAIN clips : clips[i] # undefined
    /\ hasVideo(clips) => clipA(clips) # undefined

(* C29: in every reachable state the playhead is within the timeline:       *)
(* 0 <= currentTime <= totalDuration, after moving the playhead and after   *)
(* any edit that shortens totalDuration.                                    *)
C29_PlayheadInRange ==
    /\ 0 <= currentTime
    /\ currentTime <= ExpectedTotalDuration(clips, transition)

(* the Crop invariant *)
ValidCrop(c) ==
    /\ c.x >= 0
    /\ c.y >= 0
    /\ c.x + c.width <= 100
    /\ c.y + c.height <= 100
    /\ c.width >= 5
    /\ c.height >= 5

(* C24: every crop CropTool produces, for every handle and every mouse      *)
(* displacement, and every crop committed to the editor state through       *)
(* onCropChange, satisfies x >= 0, y >= 0, x + width <= 100,                *)
(* y + height <= 100, width >= 5 and height >= 5.                           *)
C24_CropValid == ValidCrop(localCrop) /\ ValidCrop(crop)

C24_Witness ==
    /\ activeHandle = undefined
    /\ startCrop # undefined
    /\ crop = localCrop
    /\ crop.x = 95
    /\ crop.width = 5

(* the entry a step has put at the end of the history *)
Committed == history'[Len(history')]

(* C26: no committed edit is lost by an asynchronous add-clip.  When the    *)
(* onseeked callback of a started handleAddClip commits, the state after it *)
(* is the state before it with the new clip put in its slot, so every edit  *)
(* committed since the call is still there, and every entry of the history  *)
(* up to the current one is still in the undo history.                      *)
C26_NoLostEdit ==
    [][(loading' # loading /\ history' # history) =>
          \E l \in loading \ loading' :
              /\ at(Committed.clips, l.index) # undefined
              /\ Val(at(Committed.clips, l.index)).url = l.url
              /\ Committed = [state EXCEPT !.clips =
                                 setAt(state.clips, l.index, at(Committed.clips, l.index))]
              /\ SubSeq(history', 1, currentIndex + 1) = SubSeq(history, 1, currentIndex + 1)
              /\ state' = Committed]_vars

(* the object URLs the clips of an editor state refer to *)
urlsOf(s) == {Val(s.clips[i]).url : i \in {j \in DOMAIN s.clips : s.clips[j] # undefined}}

(* C27: no clip of the current timeline, and no clip of a state that undo   *)
(* or redo can still bring back, refers to an object URL that has been      *)
(* released.                                                                *)
C27_NoReleasedUrl ==
    \A i \in DOMAIN history : urlsOf(history[i]) \cap revoked = {}

(* C30: the history is never empty and currentIndex points into it; a step  *)
(* that leaves the history alone moves the index by at most one and only    *)
(* within the history (undo at 0 and redo at the end change nothing); a     *)
(* step that changes the history appends one state, different from the      *)
(* current one, right after the current entry, drops every redo entry and   *)
(* makes the new entry current.                                             *)
C30_HistoryShape ==
    [][/\ Len(history') >= 1
       /\ currentIndex' \in 0 .. Len(history') - 1
       /\ history' = history =>
             /\ currentIndex' \in {currentIndex - 1, currentIndex, currentIndex + 1}
             /\ currentIndex' = currentIndex => state' = state
       /\ history' # history =>
             /\ history' = Append(SubSeq(history, 1, currentIndex + 1), Committed)
             /\ ~sameJSON(Committed, state)
             /\ currentIndex' = Len(history') - 1]_vars

(* the frame a step has appended to the frames of the running export *)
NewFrame == frames'[Len(frames')]

====
